---- MODULE Spec2Model ----
(***************************************************************************)
(* ntris: the gameplay core (piece catalog, board, game state machine).    *)
(*                                                                         *)
(* State is the Game aggregate of game.h, one variable per field, plus the *)
(* last call as seen from outside (which operation ran, with what         *)
(* argument, what it returned, whether it ran lock_and_clear and the row   *)
(* count it obtained), plus the locals of main's loop and a count of the   *)
(* updates a piece has spent on the ground.                                *)
(* Time is a double, in seconds, as in the code: the timers, delta_time    *)
(* and the gravity speed are IEEE 754 binary64 values, and sums,           *)
(* differences and products are rounded as the machine rounds them (to     *)
(* nearest, ties to even, at 53 significant binary digits).  A double is   *)
(* written here with the three digits, of 22 bits each, of its value in    *)
(* units of 2^-62 s: <<h, m, l>> is (h * 2^44 + m * 2^22 + l) * 2^-62 s.   *)
(* That covers every double from 0 to below 16 s that is a multiple of     *)
(* 2^-62 s, which all doubles from 2^-10 s up are; negative values and     *)
(* the other doubles are not modelled.                                     *)
(***************************************************************************)
EXTENDS Integers, Sequences, FiniteSets, TLC

VARIABLES
    board,              \* Board.cells[y][x]: 0 = empty, 1..7 = piece colour
    state,              \* GameState
    current_piece,      \* PieceType 0..6 (I O T S Z J L)
    current_rotation,   \* RotationState 0..3
    piece_x,
    piece_y,
    next_piece,
    score,
    level,
    lines_cleared,
    gravity_timer,      \* a double, in seconds
    lock_delay_timer,   \* a double, in seconds
    is_on_ground,
    op,                 \* name of the last operation called
    arg,                \* its argument (level or delta_time), 0 if it has none
    ret,                \* what it returned (FALSE for a void function)
    locked,             \* the last call ran lock_and_clear
    lines,              \* the row count lock_and_clear obtained in the last call
    calls,              \* number of calls made so far
    selected_level,     \* main's level selection on the start screen
    should_quit,        \* main's loop control
    beeps,              \* sound_beep invocations in the last frame of main's loop
    waited              \* updates that found the piece grounded, counted
                        \* since it spawned (or since the first state)

vars == <<board, state, current_piece, current_rotation, piece_x, piece_y,
          next_piece, score, level, lines_cleared, gravity_timer,
          lock_delay_timer, is_on_ground, op, arg, ret, locked, lines,
          calls, selected_level, should_quit, beeps, waited>>

(***************************************************************************)
(* Program constants                                                       *)
(***************************************************************************)
BOARD_WIDTH == 10
BOARD_HEIGHT == 20
PIECE_COUNT == 7
SPAWN_X == 3
SPAWN_Y == 0
LINES_PER_LEVEL == 10
WALL_KICK_COUNT == 6

PIECE_I == 0
PIECE_O == 1
PIECE_T == 2
PIECE_S == 3
PIECE_Z == 4
PIECE_J == 5
PIECE_L == 6

ROT_0 == 0
ROT_270 == 3

PieceTypes == 0 .. (PIECE_COUNT - 1)
Rotations == 0 .. 3
Cols == 0 .. (BOARD_WIDTH - 1)
Rows == 0 .. (BOARD_HEIGHT - 1)

WALL_KICK_OFFSETS ==
    << <<0, 0>>, <<-1, 0>>, <<1, 0>>, <<0, -1>>, <<-2, 0>>, <<2, 0>> >>

\* a score table growing by 100 per row
LineClearScoresLinear == <<0, 100, 200, 300, 400>>

LINE_CLEAR_SCORES == <<0, 100, 300, 500, 800>>

(***************************************************************************)
(* Doubles.  <<h, m, l>> stands for (h * 2^44 + m * 2^22 + l) * 2^-62.     *)
(***************************************************************************)
Radix == 2 ^ 22

\* 0.0
DoubleZero == <<0, 0, 0>>

\* the three digits once the carries are passed on
Carried(h, m, l) ==
    LET m1 == m + (l \div Radix)
    IN  <<h + (m1 \div Radix), m1 % Radix, l % Radix>>

\* the number of binary digits of n
RECURSIVE BitLength(_)
BitLength(n) == IF n = 0 THEN 0 ELSE 1 + BitLength(n \div 2)

\* the double nearest to the exact value x, ties to even: at most 53
\* significant binary digits are kept
RoundToDouble(x) ==
    LET len == IF x[1] > 0 THEN 44 + BitLength(x[1])
               ELSE IF x[2] > 0 THEN 22 + BitLength(x[2])
               ELSE BitLength(x[3])
    IN  IF len <= 53 THEN x
        ELSE LET q == 2 ^ (len - 53)
                 r == x[3] % q
                 kept == x[3] - r
                 up == \/ 2 * r > q
                       \/ 2 * r = q /\ (kept \div q) % 2 = 1
             IN  Carried(x[1], x[2], IF up THEN kept + q ELSE kept)

\* a + b on doubles
DoubleSum(a, b) ==
    RoundToDouble(Carried(a[1] + b[1], a[2] + b[2], a[3] + b[3]))

\* a < b on doubles
DoubleLess(a, b) ==
    \/ a[1] < b[1]
    \/ a[1] = b[1] /\ a[2] < b[2]
    \/ a[1] = b[1] /\ a[2] = b[2] /\ a[3] < b[3]

\* a >= b on doubles
DoubleAtLeast(a, b) == ~DoubleLess(a, b)

\* a - b on doubles, for a >= b
DoubleDifference(a, b) ==
    LET l == a[3] - b[3]
        m == a[2] - b[2] - (IF l < 0 THEN 1 ELSE 0)
        h == a[1] - b[1] - (IF m < 0 THEN 1 ELSE 0)
    IN  RoundToDouble(<<h, m % Radix, l % Radix>>)

\* k * a for an int k in 0 .. 511, converted to double, and a double a
DoubleTimes(k, a) == RoundToDouble(Carried(k * a[1], k * a[2], k * a[3]))

\* #define LOCK_DELAY 0.5
LOCK_DELAY == <<131072, 0, 0>>

\* the literal 0.8 of game_get_gravity_speed: 0x1.999999999999ap-1
BaseSpeed == <<209715, 838860, 3355648>>

\* the literal 0.007 of game_get_gravity_speed: 0x1.cac083126e979p-8
SpeedStep == <<1835, 33554, 1811940>>

\* the literal 0.05 of game_get_gravity_speed: 0x1.999999999999ap-5
MinSpeed == <<13107, 838860, 3355456>>

(***************************************************************************)
(* Piece catalog (piece.c)                                                 *)
(***************************************************************************)
I_SHAPES == << << <<0, 1>>, <<1, 1>>, <<2, 1>>, <<3, 1>> >>,
               << <<2, 0>>, <<2, 1>>, <<2, 2>>, <<2, 3>> >>,
               << <<0, 2>>, <<1, 2>>, <<2, 2>>, <<3, 2>> >>,
               << <<1, 0>>, <<1, 1>>, <<1, 2>>, <<1, 3>> >> >>

O_SHAPES == << << <<1, 0>>, <<2, 0>>, <<1, 1>>, <<2, 1>> >>,
               << <<1, 0>>, <<2, 0>>, <<1, 1>>, <<2, 1>> >>,
               << <<1, 0>>, <<2, 0>>, <<1, 1>>, <<2, 1>> >>,
               << <<1, 0>>, <<2, 0>>, <<1, 1>>, <<2, 1>> >> >>

T_SHAPES == << << <<1, 0>>, <<0, 1>>, <<1, 1>>, <<2, 1>> >>,
               << <<1, 0>>, <<1, 1>>, <<2, 1>>, <<1, 2>> >>,
               << <<0, 1>>, <<1, 1>>, <<2, 1>>, <<1, 2>> >>,
               << <<1, 0>>, <<0, 1>>, <<1, 1>>, <<1, 2>> >> >>

S_SHAPES == << << <<1, 0>>, <<2, 0>>, <<0, 1>>, <<1, 1>> >>,
               << <<1, 0>>, <<1, 1>>, <<2, 1>>, <<2, 2>> >>,
               << <<1, 1>>, <<2, 1>>, <<0, 2>>, <<1, 2>> >>,
               << <<0, 0>>, <<0, 1>>, <<1, 1>>, <<1, 2>> >> >>

Z_SHAPES == << << <<0, 0>>, <<1, 0>>, <<1, 1>>, <<2, 1>> >>,
               << <<2, 0>>, <<1, 1>>, <<2, 1>>, <<1, 2>> >>,
               << <<0, 1>>, <<1, 1>>, <<1, 2>>, <<2, 2>> >>,
               << <<1, 0>>, <<0, 1>>, <<1, 1>>, <<0, 2>> >> >>

J_SHAPES == << << <<0, 0>>, <<0, 1>>, <<1, 1>>, <<2, 1>> >>,
               << <<1, 0>>, <<2, 0>>, <<1, 1>>, <<1, 2>> >>,
               << <<0, 1>>, <<1, 1>>, <<2, 1>>, <<2, 2>> >>,
               << <<1, 0>>, <<1, 1>>, <<0, 2>>, <<1, 2>> >> >>

L_SHAPES == << << <<2, 0>>, <<0, 1>>, <<1, 1>>, <<2, 1>> >>,
               << <<1, 0>>, <<1, 1>>, <<1, 2>>, <<2, 2>> >>,
               << <<0, 1>>, <<1, 1>>, <<2, 1>>, <<0, 2>> >>,
               << <<0, 0>>, <<1, 0>>, <<1, 1>>, <<1, 2>> >> >>

ROTATION_TABLES ==
    <<I_SHAPES, O_SHAPES, T_SHAPES, S_SHAPES, Z_SHAPES, J_SHAPES, L_SHAPES>>

PIECE_COLORS == <<1, 2, 3, 4, 5, 6, 7>>

\* the 4 cells of (type, rotation), in table order, each <<dx, dy>>
\* the table entry with its last cell repeating the third
ShapeWithRepeatedCell(type, rotation) ==
    [i \in 1 .. 4 |->
        ROTATION_TABLES[type + 1][rotation + 1][IF i = 4 THEN 3 ELSE i]]

\* the null pointer
NULL == "NULL"

\* board_check_collision and board_lock_piece dereference what this
\* returns: they are applied to types in 0..6 and rotations in 0..3 only
piece_get_shape(type, rotation) ==
    IF type < 0 \/ type >= PIECE_COUNT THEN NULL
    ELSE IF rotation < ROT_0 \/ rotation > ROT_270 THEN NULL
    ELSE ROTATION_TABLES[type + 1][rotation + 1]

\* piece_get_color returning the type index itself (the table's + 1 lost)
PieceColorIndex(type) ==
    IF type < 0 \/ type >= PIECE_COUNT THEN 0 ELSE type

piece_get_color(type) ==
    IF type < 0 \/ type >= PIECE_COUNT THEN 0 ELSE PIECE_COLORS[type + 1]

\* the rotation stopping at 270 degrees instead of wrapping around
RotateNoWrap(current) == IF current = 3 THEN 3 ELSE current + 1

piece_rotate_cw(current) == (current + 1) % 4

(***************************************************************************)
(* Board (board.c)                                                         *)
(***************************************************************************)
EmptyRow == [x \in Cols |-> 0]

board_init == [y \in Rows |-> EmptyRow]

\* board_check_collision without the exemption of cells above row 0
RECURSIVE CollisionNoCeiling(_, _, _, _, _)
CollisionNoCeiling(b, shape, x, y, i) ==
    IF i > 4 THEN FALSE
    ELSE LET block_x == x + shape[i][1]
             block_y == y + shape[i][2]
         IN  IF block_x < 0 \/ block_x >= BOARD_WIDTH THEN TRUE
             ELSE IF block_y >= BOARD_HEIGHT THEN TRUE
             ELSE IF block_y < 0 THEN TRUE
             ELSE IF b[block_y][block_x] # 0 THEN TRUE
             ELSE CollisionNoCeiling(b, shape, x, y, i + 1)

\* the loop of board_check_collision from block i on, with its early returns
RECURSIVE CollisionFrom(_, _, _, _, _)
CollisionFrom(b, shape, x, y, i) ==
    IF i > 4 THEN FALSE
    ELSE LET block_x == x + shape[i][1]
             block_y == y + shape[i][2]
         IN  IF block_x < 0 \/ block_x >= BOARD_WIDTH THEN TRUE
             ELSE IF block_y >= BOARD_HEIGHT THEN TRUE
             ELSE IF block_y < 0 THEN CollisionFrom(b, shape, x, y, i + 1)
             ELSE IF b[block_y][block_x] # 0 THEN TRUE
             ELSE CollisionFrom(b, shape, x, y, i + 1)

board_check_collision(b, type, rotation, x, y) ==
    CollisionFrom(b, piece_get_shape(type, rotation), x, y, 1)

\* the loop of board_lock_piece from block i on
RECURSIVE LockFrom(_, _, _, _, _, _)
\* the loop of board_lock_piece leaving out the blocks of row 0 as well
RECURSIVE LockFromBelowTop(_, _, _, _, _, _)
LockFromBelowTop(b, shape, color, x, y, i) ==
    IF i > 4 THEN b
    ELSE LET block_x == x + shape[i][1]
             block_y == y + shape[i][2]
             b1 == IF /\ block_x >= 0 /\ block_x < BOARD_WIDTH
                      /\ block_y > 0 /\ block_y < BOARD_HEIGHT
                   THEN [b EXCEPT ![block_y][block_x] = color]
                   ELSE b
         IN  LockFromBelowTop(b1, shape, color, x, y, i + 1)

LockFrom(b, shape, color, x, y, i) ==
    IF i > 4 THEN b
    ELSE LET block_x == x + shape[i][1]
             block_y == y + shape[i][2]
             b1 == IF /\ block_x >= 0 /\ block_x < BOARD_WIDTH
                      /\ block_y >= 0 /\ block_y < BOARD_HEIGHT
                   THEN [b EXCEPT ![block_y][block_x] = color]
                   ELSE b
         IN  LockFrom(b1, shape, color, x, y, i + 1)

board_lock_piece(b, type, rotation, x, y) ==
    LockFrom(b, piece_get_shape(type, rotation), piece_get_color(type), x, y, 1)

\* the row scan with line_full set by any filled cell
LineFullAny(b, y) == \E x \in Cols : b[y][x] # 0

\* the row scan stopping one column short
LineFullButLast(b, y) == \A x \in 0 .. (BOARD_WIDTH - 2) : b[y][x] # 0

\* the inner scan of board_clear_lines: no cell of row y is 0
LineFull(b, y) == \A x \in Cols : b[y][x] # 0

\* rows y..1 take the row above them, row 0 is emptied
ShiftDown(b, y) ==
    [r \in Rows |-> IF r = 0 THEN EmptyRow
                    ELSE IF r <= y THEN b[r - 1]
                    ELSE b[r]]

\* board_clear_lines without the y++ that tests a cleared row again
RECURSIVE ClearFromNoRecheck(_, _, _)
ClearFromNoRecheck(b, y, n) ==
    IF y < 0 THEN [board |-> b, count |-> n]
    ELSE IF \A x \in Cols : b[y][x] # 0
         THEN ClearFromNoRecheck(
                  [r \in Rows |-> IF r = 0 THEN EmptyRow
                                  ELSE IF r <= y THEN b[r - 1]
                                  ELSE b[r]], y - 1, n + 1)
    ELSE ClearFromNoRecheck(b, y - 1, n)

\* the outer loop of board_clear_lines at row y with n rows cleared so far;
\* a cleared row is tested again (the y++ before the loop's y--)
RECURSIVE ClearFrom(_, _, _)
ClearFrom(b, y, n) ==
    IF y < 0 THEN [board |-> b, count |-> n]
    ELSE IF LineFull(b, y) THEN ClearFrom(ShiftDown(b, y), y, n + 1)
    ELSE ClearFrom(b, y - 1, n)

\* [board |-> the compacted board, count |-> the value returned]
board_clear_lines(b) == ClearFrom(b, BOARD_HEIGHT - 1, 0)

\* board_get_cell reporting the surroundings of the board as occupied
GetCellWalled(b, x, y) ==
    IF x < 0 \/ x >= BOARD_WIDTH \/ y < 0 \/ y >= BOARD_HEIGHT THEN 1
    ELSE b[y][x]

board_get_cell(b, x, y) ==
    IF x < 0 \/ x >= BOARD_WIDTH \/ y < 0 \/ y >= BOARD_HEIGHT THEN 0
    ELSE b[y][x]

(***************************************************************************)
(* Game state machine (game.c).  The functions are operators on the Game   *)
(* aggregate g, a record of the struct's fields.                           *)
(***************************************************************************)
Game ==
    [board |-> board, state |-> state, current_piece |-> current_piece,
     current_rotation |-> current_rotation, piece_x |-> piece_x,
     piece_y |-> piece_y, next_piece |-> next_piece, score |-> score,
     level |-> level, lines_cleared |-> lines_cleared,
     gravity_timer |-> gravity_timer, lock_delay_timer |-> lock_delay_timer,
     is_on_ground |-> is_on_ground]

\* the aggregate after the call is g
Becomes(g) ==
    /\ board' = g.board
    /\ state' = g.state
    /\ current_piece' = g.current_piece
    /\ current_rotation' = g.current_rotation
    /\ piece_x' = g.piece_x
    /\ piece_y' = g.piece_y
    /\ next_piece' = g.next_piece
    /\ score' = g.score
    /\ level' = g.level
    /\ lines_cleared' = g.lines_cleared
    /\ gravity_timer' = g.gravity_timer
    /\ lock_delay_timer' = g.lock_delay_timer
    /\ is_on_ground' = g.is_on_ground

\* game_init starting to play at once, without the start screen
GameInitPlaying(first, second) ==
    [board |-> board_init, state |-> "Playing",
     current_piece |-> first, current_rotation |-> ROT_0,
     piece_x |-> SPAWN_X, piece_y |-> SPAWN_Y, next_piece |-> second,
     score |-> 0, level |-> 1, lines_cleared |-> 0,
     gravity_timer |-> DoubleZero, lock_delay_timer |-> DoubleZero, is_on_ground |-> FALSE]

\* game_init; first and second are the two values of rand() % PIECE_COUNT
game_init(first, second) ==
    [board |-> board_init, state |-> "StartScreen",
     current_piece |-> first, current_rotation |-> ROT_0,
     piece_x |-> SPAWN_X, piece_y |-> SPAWN_Y, next_piece |-> second,
     score |-> 0, level |-> 1, lines_cleared |-> 0,
     gravity_timer |-> DoubleZero, lock_delay_timer |-> DoubleZero, is_on_ground |-> FALSE]

\* the clamp without its upper branch
ClampLevelNoUpper(lv) == IF lv < 1 THEN 1 ELSE lv

\* the clamp of game_set_starting_level
ClampLevel(lv) == IF lv < 1 THEN 1 ELSE IF lv > 10 THEN 10 ELSE lv

\* game_set_starting_level without its collision test
SetStartingLevelNoTest(g, lv) ==
    [g EXCEPT !.level = ClampLevel(lv), !.state = "Playing"]

\* game_set_starting_level starting on an emptied board
SetStartingLevelClearsBoard(g, lv) ==
    LET g1 == [g EXCEPT !.level = ClampLevel(lv), !.state = "Playing",
                        !.board = board_init]
    IN  IF board_check_collision(g1.board, g1.current_piece,
                                 g1.current_rotation, g1.piece_x, g1.piece_y)
        THEN [g1 EXCEPT !.state = "GameOver"]
        ELSE g1

game_set_starting_level(g, lv) ==
    LET g1 == [g EXCEPT !.level = ClampLevel(lv), !.state = "Playing"]
    IN  IF board_check_collision(g1.board, g1.current_piece,
                                 g1.current_rotation, g1.piece_x, g1.piece_y)
        THEN [g1 EXCEPT !.state = "GameOver"]
        ELSE g1

\* game_spawn_piece without the reset of the ground state
SpawnKeepsGroundState(g, drawn) ==
    LET g1 == [g EXCEPT !.current_piece = g.next_piece,
                        !.current_rotation = ROT_0,
                        !.piece_x = SPAWN_X,
                        !.piece_y = SPAWN_Y,
                        !.next_piece = drawn]
    IN  IF board_check_collision(g1.board, g1.current_piece,
                                 g1.current_rotation, g1.piece_x, g1.piece_y)
        THEN [g1 EXCEPT !.state = "GameOver"]
        ELSE g1

\* game_spawn_piece without the assignment of GAME_STATE_GAME_OVER
SpawnLeavesState(g, drawn) ==
    [g EXCEPT !.current_piece = g.next_piece,
              !.current_rotation = ROT_0,
              !.piece_x = SPAWN_X,
              !.piece_y = SPAWN_Y,
              !.next_piece = drawn,
              !.is_on_ground = FALSE,
              !.lock_delay_timer = DoubleZero]

\* the aggregate after game_spawn_piece; drawn is rand() % PIECE_COUNT
game_spawn_piece(g, drawn) ==
    LET g1 == [g EXCEPT !.current_piece = g.next_piece,
                        !.current_rotation = ROT_0,
                        !.piece_x = SPAWN_X,
                        !.piece_y = SPAWN_Y,
                        !.next_piece = drawn,
                        !.is_on_ground = FALSE,
                        !.lock_delay_timer = DoubleZero]
    IN  IF board_check_collision(g1.board, g1.current_piece,
                                 g1.current_rotation, g1.piece_x, g1.piece_y)
        THEN [g1 EXCEPT !.state = "GameOver"]
        ELSE g1

\* the value game_spawn_piece returns
SpawnResult(g) ==
    ~board_check_collision(g.board, g.next_piece, ROT_0, SPAWN_X, SPAWN_Y)

\* the level-up assignment of lock_and_clear
LevelFor(total) == 1 + (total \div LINES_PER_LEVEL)

\* LINE_CLEAR_SCORES[n]; the table has 5 entries, and a read past them is
\* undefined in C: stray stands for whatever value such a read yields
LineClearScore(n, stray) ==
    IF n + 1 \in DOMAIN LINE_CLEAR_SCORES THEN LINE_CLEAR_SCORES[n + 1]
    ELSE stray

\* the bookkeeping with the level raised before the score is awarded
AwardLinesAtNewLevel(g, n, stray) ==
    IF n > 0
    THEN [g EXCEPT !.lines_cleared = g.lines_cleared + n,
                   !.score = g.score + LineClearScore(n, stray)
                                       * (1 + ((g.lines_cleared + n) \div LINES_PER_LEVEL)),
                   !.level = 1 + ((g.lines_cleared + n) \div LINES_PER_LEVEL)]
    ELSE g

\* the bookkeeping of lock_and_clear for a row count n
AwardLines(g, n, stray) ==
    IF n > 0
    THEN [g EXCEPT !.lines_cleared = g.lines_cleared + n,
                   !.score = g.score + LineClearScore(n, stray) * g.level,
                   !.level = LevelFor(g.lines_cleared + n)]
    ELSE g

\* the row count lock_and_clear obtains from board_clear_lines
LockedLines(g) ==
    board_clear_lines(board_lock_piece(g.board, g.current_piece,
        g.current_rotation, g.piece_x, g.piece_y)).count

\* lock_and_clear counting the full rows and leaving them on the board
LockAndClearKeepsRows(g, drawn, stray) ==
    LET b1 == board_lock_piece(g.board, g.current_piece,
                               g.current_rotation, g.piece_x, g.piece_y)
        cl == board_clear_lines(b1)
        g1 == AwardLines([g EXCEPT !.board = b1], cl.count, stray)
    IN  game_spawn_piece(g1, drawn)

\* lock_and_clear keeping the last row count in place of the total
LockAndClearCountsLast(g, drawn, stray) ==
    LET b1 == board_lock_piece(g.board, g.current_piece,
                               g.current_rotation, g.piece_x, g.piece_y)
        cl == board_clear_lines(b1)
        g1 == AwardLines([g EXCEPT !.board = cl.board], cl.count, stray)
    IN  game_spawn_piece(
            [g1 EXCEPT !.lines_cleared =
                IF cl.count > 0 THEN cl.count ELSE g.lines_cleared],
            drawn)

lock_and_clear(g, drawn, stray) ==
    LET b1 == board_lock_piece(g.board, g.current_piece,
                               g.current_rotation, g.piece_x, g.piece_y)
        cl == board_clear_lines(b1)
        g1 == AwardLines([g EXCEPT !.board = cl.board], cl.count, stray)
    IN  game_spawn_piece(g1, drawn)

is_grounded(g) ==
    board_check_collision(g.board, g.current_piece, g.current_rotation,
                          g.piece_x, g.piece_y + 1)

\* the speed formula without its lower limit; a negative speed, which
\* every timer has reached, is given as 0.0
GravitySpeedUnclamped(g) ==
    IF g.level - 1 > 511 THEN DoubleZero
    ELSE LET drop == DoubleTimes(g.level - 1, SpeedStep)
         IN  IF DoubleLess(BaseSpeed, drop) THEN DoubleZero
             ELSE DoubleDifference(BaseSpeed, drop)

\* seconds per row, for level >= 1.  (level - 1) * 0.007 is above 0.8 from
\* level 116 on: the difference is negative there and the limit applies
game_get_gravity_speed(g) ==
    IF g.level - 1 > 511 THEN MinSpeed
    ELSE LET drop == DoubleTimes(g.level - 1, SpeedStep)
         IN  IF DoubleLess(BaseSpeed, drop) THEN MinSpeed
             ELSE LET speed == DoubleDifference(BaseSpeed, drop)
                  IN  IF DoubleLess(speed, MinSpeed) THEN MinSpeed ELSE speed

\* the gravity phase of game_update, after the timer was advanced
GravityPhase(g) ==
    IF DoubleAtLeast(g.gravity_timer, game_get_gravity_speed(g))
    THEN IF ~board_check_collision(g.board, g.current_piece,
                g.current_rotation, g.piece_x, g.piece_y + 1)
         THEN [g EXCEPT !.gravity_timer = DoubleZero,
                        !.piece_y = g.piece_y + 1,
                        !.is_on_ground = FALSE,
                        !.lock_delay_timer = DoubleZero]
         ELSE [g EXCEPT !.gravity_timer = DoubleZero, !.is_on_ground = TRUE]
    ELSE g

\* the lock-delay phase of game_update reaches lock_and_clear
UpdateLocks(g, delta_time) ==
    LET g1 == GravityPhase([g EXCEPT !.gravity_timer = DoubleSum(g.gravity_timer, delta_time)])
    IN  /\ g.state = "Playing"
        /\ (g1.is_on_ground \/ is_grounded(g1))
        /\ DoubleAtLeast(DoubleSum(g1.lock_delay_timer, delta_time), LOCK_DELAY)

\* the lock-delay phase of game_update finds the piece grounded
UpdateGrounded(g, delta_time) ==
    LET g1 == GravityPhase([g EXCEPT !.gravity_timer = DoubleSum(g.gravity_timer, delta_time)])
    IN  /\ g.state = "Playing"
        /\ (g1.is_on_ground \/ is_grounded(g1))

\* the piece as game_update hands it to lock_and_clear
UpdateLockedPiece(g, delta_time) ==
    GravityPhase([g EXCEPT !.gravity_timer = DoubleSum(g.gravity_timer, delta_time)])

\* game_update advancing the lock-delay timer by twice delta_time
UpdateCountsTwice(g, delta_time, drawn, stray) ==
    IF g.state # "Playing" THEN g
    ELSE LET g1 == GravityPhase(
                     [g EXCEPT !.gravity_timer = DoubleSum(g.gravity_timer, delta_time)])
         IN  IF g1.is_on_ground \/ is_grounded(g1)
             THEN LET g2 == [g1 EXCEPT
                               !.is_on_ground = TRUE,
                               !.lock_delay_timer =
                                   DoubleSum(DoubleSum(g1.lock_delay_timer,
                                                       delta_time), delta_time)]
                  IN  IF DoubleAtLeast(g2.lock_delay_timer, LOCK_DELAY)
                      THEN lock_and_clear(g2, drawn, stray)
                      ELSE g2
             ELSE [g1 EXCEPT !.lock_delay_timer = DoubleZero]

\* game_update locking only once the lock delay is exceeded
UpdateLocksLate(g, delta_time, drawn, stray) ==
    IF g.state # "Playing" THEN g
    ELSE LET g1 == GravityPhase(
                     [g EXCEPT !.gravity_timer = DoubleSum(g.gravity_timer, delta_time)])
         IN  IF g1.is_on_ground \/ is_grounded(g1)
             THEN LET g2 == [g1 EXCEPT
                               !.is_on_ground = TRUE,
                               !.lock_delay_timer =
                                   DoubleSum(g1.lock_delay_timer, delta_time)]
                  IN  IF DoubleLess(LOCK_DELAY, g2.lock_delay_timer)
                      THEN lock_and_clear(g2, drawn, stray)
                      ELSE g2
             ELSE [g1 EXCEPT !.lock_delay_timer = DoubleZero]

\* game_update returning early only before and after a game
UpdateWhilePaused(g, delta_time, drawn, stray) ==
    IF g.state \in {"StartScreen", "GameOver"} THEN g
    ELSE LET g1 == GravityPhase(
                     [g EXCEPT !.gravity_timer = DoubleSum(g.gravity_timer, delta_time)])
         IN  IF g1.is_on_ground \/ is_grounded(g1)
             THEN LET g2 == [g1 EXCEPT
                               !.is_on_ground = TRUE,
                               !.lock_delay_timer =
                                   DoubleSum(g1.lock_delay_timer, delta_time)]
                  IN  IF DoubleAtLeast(g2.lock_delay_timer, LOCK_DELAY)
                      THEN lock_and_clear(g2, drawn, stray)
                      ELSE g2
             ELSE [g1 EXCEPT !.lock_delay_timer = DoubleZero]

game_update(g, delta_time, drawn, stray) ==
    IF g.state # "Playing" THEN g
    ELSE LET g1 == GravityPhase(
                     [g EXCEPT !.gravity_timer = DoubleSum(g.gravity_timer, delta_time)])
         IN  IF g1.is_on_ground \/ is_grounded(g1)
             THEN LET g2 == [g1 EXCEPT
                               !.is_on_ground = TRUE,
                               !.lock_delay_timer =
                                   DoubleSum(g1.lock_delay_timer, delta_time)]
                  IN  IF DoubleAtLeast(g2.lock_delay_timer, LOCK_DELAY)
                      THEN lock_and_clear(g2, drawn, stray)
                      ELSE g2
             ELSE [g1 EXCEPT !.lock_delay_timer = DoubleZero]

\* the ground state cleared after every committed move
ResetAlways(g) == [g EXCEPT !.is_on_ground = FALSE, !.lock_delay_timer = DoubleZero]

\* the flag cleared off the ground, the lock-delay timer left running
ResetFlagOnly(g) ==
    IF ~is_grounded(g) THEN [g EXCEPT !.is_on_ground = FALSE] ELSE g

\* the ground state kept whatever the piece now stands on
ResetNever(g) == g

\* "Reset lock delay if moving off ground"
ResetIfOffGround(g) ==
    IF ~is_grounded(g)
    THEN [g EXCEPT !.is_on_ground = FALSE, !.lock_delay_timer = DoubleZero]
    ELSE g

\* game_move_left (dx = -1) and game_move_right (dx = +1)
MoveSideOk(g, dx) ==
    /\ g.state = "Playing"
    /\ ~board_check_collision(g.board, g.current_piece, g.current_rotation,
                              g.piece_x + dx, g.piece_y)

\* game_move_left and game_move_right clearing the ground state when the
\* move is refused
MoveSideResets(g, dx) ==
    IF MoveSideOk(g, dx)
    THEN ResetIfOffGround([g EXCEPT !.piece_x = g.piece_x + dx])
    ELSE [g EXCEPT !.is_on_ground = FALSE, !.lock_delay_timer = DoubleZero]

MoveSide(g, dx) ==
    IF MoveSideOk(g, dx)
    THEN ResetIfOffGround([g EXCEPT !.piece_x = g.piece_x + dx])
    ELSE g

game_move_left(g) == MoveSide(g, -1)
game_move_right(g) == MoveSide(g, 1)

\* the test of game_move_down without its guard on the state
MoveDownOkAnyState(g) ==
    ~board_check_collision(g.board, g.current_piece, g.current_rotation,
                           g.piece_x, g.piece_y + 1)

MoveDownOk(g) ==
    /\ g.state = "Playing"
    /\ ~board_check_collision(g.board, g.current_piece, g.current_rotation,
                              g.piece_x, g.piece_y + 1)

\* the soft drop awarding as much per row as the hard drop
MoveDownTwoPoints(g) ==
    IF MoveDownOk(g)
    THEN [g EXCEPT !.piece_y = g.piece_y + 1,
                   !.score = g.score + 2,
                   !.is_on_ground = FALSE,
                   !.lock_delay_timer = DoubleZero]
    ELSE g

game_move_down(g) ==
    IF MoveDownOk(g)
    THEN [g EXCEPT !.piece_y = g.piece_y + 1,
                   !.score = g.score + 1,
                   !.is_on_ground = FALSE,
                   !.lock_delay_timer = DoubleZero]
    ELSE g

\* the kick loop running on past a free offset: the index of the last
\* offset at which the rotated piece does not collide, 0 when there is none
RECURSIVE KickFromLast(_, _)
KickFromLast(g, i) ==
    IF i > WALL_KICK_COUNT THEN 0
    ELSE LET later == KickFromLast(g, i + 1)
         IN  IF later # 0 THEN later
             ELSE IF ~board_check_collision(g.board, g.current_piece,
                          piece_rotate_cw(g.current_rotation),
                          g.piece_x + WALL_KICK_OFFSETS[i][1],
                          g.piece_y + WALL_KICK_OFFSETS[i][2])
                  THEN i
                  ELSE 0

\* the kick loop of game_rotate from offset i on: the index of the first
\* offset at which the rotated piece does not collide, 0 when there is none
RECURSIVE KickFrom(_, _)
KickFrom(g, i) ==
    IF i > WALL_KICK_COUNT THEN 0
    ELSE IF ~board_check_collision(g.board, g.current_piece,
                 piece_rotate_cw(g.current_rotation),
                 g.piece_x + WALL_KICK_OFFSETS[i][1],
                 g.piece_y + WALL_KICK_OFFSETS[i][2])
         THEN i
         ELSE KickFrom(g, i + 1)

RotateKick(g) == IF g.state # "Playing" THEN 0 ELSE KickFrom(g, 1)

\* game_rotate clearing the ground state when no offset is free
RotateResetsOnFailure(g) ==
    LET k == RotateKick(g)
    IN  IF k = 0 THEN [g EXCEPT !.is_on_ground = FALSE, !.lock_delay_timer = DoubleZero]
        ELSE ResetIfOffGround(
                 [g EXCEPT !.current_rotation = piece_rotate_cw(g.current_rotation),
                           !.piece_x = g.piece_x + WALL_KICK_OFFSETS[k][1],
                           !.piece_y = g.piece_y + WALL_KICK_OFFSETS[k][2]])

\* game_rotate turning the piece where it stands, without the kick loop
RotateInPlace(g) ==
    IF g.state # "Playing" THEN g
    ELSE ResetIfOffGround(
             [g EXCEPT !.current_rotation = piece_rotate_cw(g.current_rotation)])

game_rotate(g) ==
    LET k == RotateKick(g)
    IN  IF k = 0 THEN g
        ELSE ResetIfOffGround(
                 [g EXCEPT !.current_rotation = piece_rotate_cw(g.current_rotation),
                           !.piece_x = g.piece_x + WALL_KICK_OFFSETS[k][1],
                           !.piece_y = g.piece_y + WALL_KICK_OFFSETS[k][2]])

\* the while loop of game_hard_drop: rows descended from row y on
RECURSIVE DropDistance(_, _)
DropDistance(g, y) ==
    IF ~board_check_collision(g.board, g.current_piece, g.current_rotation,
                              g.piece_x, y + 1)
    THEN 1 + DropDistance(g, y + 1)
    ELSE 0

\* the hard drop stopping one row above the landing row
HardDropStopsShort(g, drawn, stray) ==
    IF g.state # "Playing" THEN g
    ELSE LET full == DropDistance(g, g.piece_y)
             d == IF full > 0 THEN full - 1 ELSE 0
         IN  lock_and_clear([g EXCEPT !.piece_y = g.piece_y + d,
                                      !.score = g.score + d * 2], drawn, stray)

game_hard_drop(g, drawn, stray) ==
    IF g.state # "Playing" THEN g
    ELSE LET d == DropDistance(g, g.piece_y)
         IN  lock_and_clear([g EXCEPT !.piece_y = g.piece_y + d,
                                      !.score = g.score + d * 2], drawn, stray)

\* the toggle resuming play from every state but Playing
TogglePauseFromAnyState(g) ==
    IF g.state = "Playing" THEN [g EXCEPT !.state = "Paused"]
    ELSE [g EXCEPT !.state = "Playing"]

game_toggle_pause(g) ==
    IF g.state = "Playing" THEN [g EXCEPT !.state = "Paused"]
    ELSE IF g.state = "Paused" THEN [g EXCEPT !.state = "Playing"]
    ELSE g

(***************************************************************************)
(* Bounds of the model                                                     *)
(***************************************************************************)
\* calls explored from each initial state
MaxCalls == 3
\* rand() % PIECE_COUNT is drawn from 0 .. MaxDraw
MaxDraw == 1

DrawTypes == 0 .. MaxDraw
\* arguments of game_set_starting_level: below, inside and above 1..10
LevelArgs == {0, 3, 11}
\* 0.25
QuarterSecond == <<65536, 0, 0>>
\* 1.0
OneSecond == <<262144, 0, 0>>
\* delta_time, in seconds
Deltas == {QuarterSecond, OneSecond}
\* what a read past the end of LINE_CLEAR_SCORES may yield: any int.  The
\* object file the Makefile builds has padding and WALL_KICK_OFFSETS behind
\* the table, so that the read yields a value in -2 .. 2; 1000 stands for
\* what other builds place there.  No value is read from the table's
\* memory when the index n is within it
StrayReads(n) ==
    IF n + 1 \in DOMAIN LINE_CLEAR_SCORES THEN {0}
    ELSE {-2, -1, 0, 1, 2, 1000}

(***************************************************************************)
(* The calls of the public interface, one action each                      *)
(***************************************************************************)
\* the count of grounded updates after a call on game g: a spawn starts
\* it again, an update that finds the piece grounded adds one
WaitedAfter(w, name, g, a, didLock) ==
    IF didLock \/ name \in {"game_init", "spawn_next"} THEN 0
    ELSE IF name = "update" /\ UpdateGrounded(g, a) THEN w + 1
    ELSE w

CalledWithin(bound, name, a, result, didLock, n) ==
    /\ calls < bound
    /\ op' = name
    /\ arg' = a
    /\ ret' = result
    /\ locked' = didLock
    /\ lines' = n
    /\ calls' = calls + 1
    /\ waited' = WaitedAfter(waited, name, Game, a, didLock)
    /\ UNCHANGED <<selected_level, should_quit, beeps>>

CalledWith(name, a, result, didLock, n) ==
    CalledWithin(MaxCalls, name, a, result, didLock, n)

Called(name, result, didLock, n) == CalledWith(name, 0, result, didLock, n)

GameInit ==
    \E first \in DrawTypes, second \in DrawTypes :
        /\ Becomes(game_init(first, second))
        /\ Called("game_init", FALSE, FALSE, 0)

SetStartingLevel ==
    \E lv \in LevelArgs :
        /\ Becomes(game_set_starting_level(Game, lv))
        /\ CalledWith("set_starting_level", lv, FALSE, FALSE, 0)

SpawnPiece ==
    \E drawn \in DrawTypes :
        /\ Becomes(game_spawn_piece(Game, drawn))
        /\ Called("spawn_next", SpawnResult(Game), FALSE, 0)

\* the row count the call obtains when it runs lock_and_clear, else 0
UpdateLines(g, delta_time) ==
    IF UpdateLocks(g, delta_time)
    THEN LockedLines(UpdateLockedPiece(g, delta_time))
    ELSE 0

Update ==
    \E delta_time \in Deltas, drawn \in DrawTypes :
        \E stray \in StrayReads(UpdateLines(Game, delta_time)) :
            /\ Becomes(game_update(Game, delta_time, drawn, stray))
            /\ CalledWith("update", delta_time, FALSE,
                          UpdateLocks(Game, delta_time),
                          UpdateLines(Game, delta_time))

MoveLeft ==
    /\ Becomes(game_move_left(Game))
    /\ Called("move_left", MoveSideOk(Game, -1), FALSE, 0)

MoveRight ==
    /\ Becomes(game_move_right(Game))
    /\ Called("move_right", MoveSideOk(Game, 1), FALSE, 0)

MoveDown ==
    /\ Becomes(game_move_down(Game))
    /\ Called("move_down", MoveDownOk(Game), FALSE, 0)

Rotate ==
    /\ Becomes(game_rotate(Game))
    /\ Called("rotate", RotateKick(Game) # 0, FALSE, 0)

\* the piece as game_hard_drop hands it to lock_and_clear
HardDropLanding(g) == [g EXCEPT !.piece_y = g.piece_y + DropDistance(g, g.piece_y)]

\* the row count the call obtains when it runs lock_and_clear, else 0
HardDropLines(g) ==
    IF g.state = "Playing" THEN LockedLines(HardDropLanding(g)) ELSE 0

HardDrop ==
    \E drawn \in DrawTypes :
        \E stray \in StrayReads(HardDropLines(Game)) :
            /\ Becomes(game_hard_drop(Game, drawn, stray))
            /\ Called("hard_drop", FALSE, state = "Playing", HardDropLines(Game))

TogglePause ==
    /\ Becomes(game_toggle_pause(Game))
    /\ Called("toggle_pause", FALSE, FALSE, 0)

Next ==
    \/ GameInit
    \/ SetStartingLevel
    \/ SpawnPiece
    \/ Update
    \/ MoveLeft
    \/ MoveRight
    \/ MoveDown
    \/ Rotate
    \/ HardDrop
    \/ TogglePause

(***************************************************************************)
(* Initial states: the program right after game_init, and positions of     *)
(* games in progress.  Each position is the state the code is in after the *)
(* calls listed with it, every draw of rand() % PIECE_COUNT being the      *)
(* I piece unless said otherwise.                                          *)
(*   row(k):  k times  move_left x3, hard_drop, move_right, hard_drop      *)
(*            (two flat I pieces side by side in columns 0..7)             *)
(*   post(c): rotate, move_right x(c - 5), hard_drop                       *)
(*            (an upright I piece on the floor of column c)                *)
(*   cycle:   row(4), post(8), post(9)      (clears 4 rows, board empty)   *)
(*   aim:     rotate, move_right x4         (upright I piece over column 9)*)
(***************************************************************************)
\* the board after row(k), post(8): k rows filled in columns 0..8
StackBoard(k) ==
    [y \in Rows |-> [x \in Cols |->
        IF \/ (x <= 7 /\ y >= BOARD_HEIGHT - k)
           \/ (x = 8 /\ y >= BOARD_HEIGHT - 4)
        THEN 1 ELSE 0]]

\* the board after post(6) four times: column 6 filled in rows 4..19
TowerBoard ==
    [y \in Rows |-> [x \in Cols |-> IF x = 6 /\ y >= 4 THEN 1 ELSE 0]]

\* a game in progress with an upright I piece in flight
InPlay(b, x, y, nxt, sc, lv, total) ==
    [board |-> b, state |-> "Playing",
     current_piece |-> PIECE_I, current_rotation |-> 1,
     piece_x |-> x, piece_y |-> y, next_piece |-> nxt,
     score |-> sc, level |-> lv, lines_cleared |-> total,
     gravity_timer |-> DoubleZero, lock_delay_timer |-> DoubleZero, is_on_ground |-> FALSE]

Positions ==
    { \* set_starting_level(3), row(1), post(8), aim
      InPlay(StackBoard(1), 7, 0, PIECE_I, 104, 3, 0),
      \* set_starting_level(1), row(4), post(8), aim
      InPlay(StackBoard(4), 7, 0, PIECE_I, 296, 1, 0),
      \* set_starting_level(1), cycle x2, row(1), post(8), aim
      InPlay(StackBoard(1), 7, 0, PIECE_I, 2360, 1, 8),
      \* set_starting_level(1), cycle x2, row(2), post(8), aim, move_down x15
      InPlay(StackBoard(2), 7, 15, PIECE_I, 2443, 1, 8),
      \* set_starting_level(1), cycle x24, row(3), post(8), aim
      InPlay(StackBoard(3), 7, 0, PIECE_I, 108108, 10, 96),
      \* set_starting_level(1), cycle x24, row(4), post(8), aim, move_down x15
      InPlay(StackBoard(4), 7, 15, PIECE_I, 108183, 10, 96),
      \* set_starting_level(1), post(6) x4, rotate, move_right; the last draw I
      InPlay(TowerBoard, 4, 0, PIECE_I, 80, 1, 0),
      \* the same, the last draw O
      InPlay(TowerBoard, 4, 0, PIECE_O, 80, 1, 0),
      \* set_starting_level(1), rotate, move_down x11
      InPlay(board_init, 3, 11, PIECE_I, 11, 1, 0),
      \* set_starting_level(1), rotate, move_down x16
      InPlay(board_init, 3, 16, PIECE_I, 16, 1, 0) }

FreshGames == { game_init(first, second) : first \in DrawTypes, second \in DrawTypes }

\* the aggregate is g
Holds(g) ==
    /\ board = g.board
    /\ state = g.state
    /\ current_piece = g.current_piece
    /\ current_rotation = g.current_rotation
    /\ piece_x = g.piece_x
    /\ piece_y = g.piece_y
    /\ next_piece = g.next_piece
    /\ score = g.score
    /\ level = g.level
    /\ lines_cleared = g.lines_cleared
    /\ gravity_timer = g.gravity_timer
    /\ lock_delay_timer = g.lock_delay_timer
    /\ is_on_ground = g.is_on_ground

NoCallYet ==
    /\ op = "none"
    /\ arg = 0
    /\ ret = FALSE
    /\ locked = FALSE
    /\ lines = 0
    /\ calls = 0
    /\ selected_level = 1
    /\ should_quit = FALSE
    /\ beeps = 0
    /\ waited = 0

Init ==
    /\ \E g \in FreshGames \cup Positions : Holds(g)
    /\ NoCallYet

Spec == Init /\ [][Next]_vars

(***************************************************************************)
(* The board functions on their own: SpecBoard applies                     *)
(* board_check_collision and board_lock_piece to placements on and around  *)
(* the board, SpecClear applies board_clear_lines to boards with full rows.*)
(***************************************************************************)
\* placements and cell coordinates reach Margin columns left and right of
\* the board, Margin + 1 rows above it and Margin rows below it
Margin == 3
\* rows of a board that are full before board_clear_lines
MaxFull == 3

ProbeXs == (0 - Margin) .. (BOARD_WIDTH - 1 + Margin)
ProbeYs == (0 - (Margin + 1)) .. (BOARD_HEIGHT - 1 + Margin)

\* column 6 filled from top to bottom, and the left half of row 0
CeilingBoard ==
    [y \in Rows |-> [x \in Cols |->
        IF x = 6 THEN 1 ELSE IF y = 0 /\ x <= 4 THEN 7 ELSE 0]]

ProbeBoards == {board_init, StackBoard(3), CeilingBoard}

\* the aggregate holding board b and the placement (type, rotation, x, y)
Probe(b, type, rotation, x, y) ==
    [board |-> b, state |-> "Playing",
     current_piece |-> type, current_rotation |-> rotation,
     piece_x |-> x, piece_y |-> y, next_piece |-> type,
     score |-> 0, level |-> 1, lines_cleared |-> 0,
     gravity_timer |-> DoubleZero, lock_delay_timer |-> DoubleZero, is_on_ground |-> FALSE]

InitBoard ==
    /\ \E b \in ProbeBoards, type \in PieceTypes, rotation \in Rotations,
          x \in ProbeXs, y \in ProbeYs :
           Holds(Probe(b, type, rotation, x, y))
    /\ NoCallYet

\* one call of a board function; the rest of the aggregate is not touched
BoardCalled(name, b, result) ==
    /\ calls < 1
    /\ board' = b
    /\ op' = name
    /\ ret' = result
    /\ calls' = calls + 1
    /\ UNCHANGED <<state, current_piece, current_rotation, piece_x, piece_y,
                   next_piece, score, level, lines_cleared, gravity_timer,
                   lock_delay_timer, is_on_ground, arg, locked, lines,
                   selected_level, should_quit, beeps, waited>>

CheckCollision ==
    BoardCalled("check_collision", board,
        board_check_collision(board, current_piece, current_rotation,
                              piece_x, piece_y))

LockPiece ==
    BoardCalled("lock_piece",
        board_lock_piece(board, current_piece, current_rotation,
                         piece_x, piece_y),
        FALSE)

\* board_get_cell at the coordinate (piece_x, piece_y), on the board as
\* constructed or as board_lock_piece left it
GetCell ==
    /\ op \in {"none", "lock_piece"}
    /\ calls < 2
    /\ op' = "get_cell"
    /\ ret' = board_get_cell(board, piece_x, piece_y)
    /\ calls' = calls + 1
    /\ UNCHANGED <<board, state, current_piece, current_rotation, piece_x,
                   piece_y, next_piece, score, level, lines_cleared,
                   gravity_timer, lock_delay_timer, is_on_ground, arg,
                   locked, lines, selected_level, should_quit, beeps,
                   waited>>

NextBoard ==
    \/ CheckCollision
    \/ LockPiece
    \/ GetCell

SpecBoard == InitBoard /\ [][NextBoard]_vars

\* a row of a test board: full rows carry one colour, the others are a
\* prefix of their row, different in every row (length y mod 10, and the
\* rows y and y + 10 differ in colour), or empty when sparse is FALSE
TestRow(y, full, sparse) ==
    [x \in Cols |->
        IF full THEN (y % 7) + 1
        ELSE IF sparse /\ x < (y % 10) THEN ((y + (y \div 10)) % 7) + 1
        ELSE 0]

TestBoard(fullRows, sparse) ==
    [y \in Rows |-> TestRow(y, y \in fullRows, sparse)]

ClearBoards ==
    { TestBoard(F, sparse) :
        F \in {S \in SUBSET Rows : Cardinality(S) <= MaxFull},
        sparse \in BOOLEAN }

InitClear ==
    /\ \E b \in ClearBoards : Holds(Probe(b, PIECE_I, ROT_0, SPAWN_X, SPAWN_Y))
    /\ NoCallYet

ClearLines ==
    /\ calls < 2
    /\ board' = board_clear_lines(board).board
    /\ op' = "clear_lines"
    /\ ret' = board_clear_lines(board).count
    /\ calls' = calls + 1
    /\ UNCHANGED <<state, current_piece, current_rotation, piece_x, piece_y,
                   next_piece, score, level, lines_cleared, gravity_timer,
                   lock_delay_timer, is_on_ground, arg, locked, lines,
                   selected_level, should_quit, beeps, waited>>

NextClear == ClearLines

SpecClear == InitClear /\ [][NextClear]_vars

(***************************************************************************)
(* Properties                                                              *)
(***************************************************************************)
\* the calls that start a game; every other call is a step within a game
StartingCalls == {"game_init", "set_starting_level"}

\* the base scores of the specification, by number of rows
BaseScore(n) == CASE n = 1 -> 100 [] n = 2 -> 300 [] n = 3 -> 500 [] n = 4 -> 800

\* the points game_hard_drop adds before lock_and_clear, 0 for any other call
DropPoints ==
    IF op' = "hard_drop" THEN 2 * DropDistance(Game, piece_y) ELSE 0

\* C1: within a game the level never decreases: after every call other than
\* game_init and set_starting_level the level is at least what it was before.
LevelNeverDecreases ==
    [][op' \notin StartingCalls => level' >= level]_vars

\* C2: a lock-and-clear that clears n rows, n in 1..4, adds n to
\* lines_cleared and BaseScore(n) times the level held before to score
\* (on top of the hard-drop points) and leaves level = 1 + lines_cleared
\* div 10; one that clears no row changes none of the three.
LockClearBookkeeping ==
    [][locked' =>
        /\ lines' \in 1 .. 4 =>
              /\ lines_cleared' = lines_cleared + lines'
              /\ score' = score + DropPoints + BaseScore(lines') * level
              /\ level' = 1 + (lines_cleared' \div 10)
        /\ lines' = 0 =>
              /\ lines_cleared' = lines_cleared
              /\ score' = score + DropPoints
              /\ level' = level]_vars

\* C2 witness: a lock cleared 2 rows, taking the total from 8 to 10 and the
\* level to 2.
TenthLineCleared ==
    locked /\ lines = 2 /\ lines_cleared = 10 /\ level = 2

\* C3 as stated: in every reachable state the level is in 1..10.
LevelInOneToTen == level \in 1 .. 10

\* C3 amended: the level is an integer of at least 1, and it is at most 10
\* as long as fewer than 100 rows have been cleared.
LevelInRangeBelowHundredLines ==
    /\ level \in Nat
    /\ level >= 1
    /\ lines_cleared < 100 => level <= 10

\* C3 witness: the hundredth row was cleared and the level is 11.
LevelEleven == lines_cleared = 100 /\ level = 11

\* C4: spawn_next makes the next piece the current one at rotation 0 and
\* position (3,0) with the on-ground flag and the lock-delay timer cleared;
\* it returns failure and sets GameOver iff that piece collides there, and
\* otherwise returns success and leaves the state as it was.
SpawnNextContract ==
    [][op' = "spawn_next" =>
        /\ current_piece' = next_piece
        /\ current_rotation' = 0
        /\ piece_x' = 3
        /\ piece_y' = 0
        /\ is_on_ground' = FALSE
        /\ lock_delay_timer' = DoubleZero
        /\ IF board_check_collision(board, next_piece, 0, 3, 0)
           THEN ret' = FALSE /\ state' = "GameOver"
           ELSE ret' = TRUE /\ state' = state]_vars

\* C4 witness: a spawn_next call found the spawn position blocked.
SpawnNextFailed ==
    /\ op = "spawn_next"
    /\ ret = FALSE
    /\ state = "GameOver"
    /\ board_check_collision(board, current_piece, 0, 3, 0)

\* C5: GameOver is terminal: from GameOver no call other than game_init
\* leads to another state.
GameOverTerminal ==
    [][state = "GameOver" /\ op' # "game_init" => state' = "GameOver"]_vars

\* C9: every lock-and-clear obtains a row count in 0..4, an index within
\* the 5 entries of LINE_CLEAR_SCORES.
ClearedCountInRange ==
    locked => /\ lines \in 0 .. 4
              /\ lines + 1 \in DOMAIN LINE_CLEAR_SCORES

\* C9 witness: a lock-and-clear cleared 4 rows.
FourRowsCleared == locked /\ lines = 4

\* the absolute cells <<column, row>> of the placement held in the aggregate
(***************************************************************************)
(* game_rotate on its own: SpecRotate applies it to every piece in every   *)
(* rotation at every free placement on three boards of games in progress.  *)
(***************************************************************************)
RotateBoards == {board_init, StackBoard(3), TowerBoard}

InitRotate ==
    /\ \E b \in RotateBoards, type \in PieceTypes, rotation \in Rotations,
          x \in ProbeXs, y \in Rows :
           /\ ~board_check_collision(b, type, rotation, x, y)
           /\ Holds(Probe(b, type, rotation, x, y))
    /\ NoCallYet

NextRotate == Rotate

SpecRotate == InitRotate /\ [][NextRotate]_vars

(***************************************************************************)
(* A game of O pieces: SpecScenario continues the game in which every      *)
(* draw is the O piece and four O pieces were dropped side by side.        *)
(***************************************************************************)
\* the board after four O pieces were dropped onto the floor in columns
\* 0-1, 2-3, 4-5 and 6-7
FourSquaresBoard ==
    [y \in Rows |-> [x \in Cols |->
        IF x <= 7 /\ y >= BOARD_HEIGHT - 2 THEN piece_get_color(PIECE_O) ELSE 0]]

\* set_starting_level(1), move_left x4, hard_drop, move_left x2, hard_drop,
\* hard_drop, move_right x2, hard_drop, move_right x4: the fifth O piece is
\* over columns 8-9
FifthSquareAimed ==
    [board |-> FourSquaresBoard, state |-> "Playing",
     current_piece |-> PIECE_O, current_rotation |-> ROT_0,
     piece_x |-> 7, piece_y |-> 0, next_piece |-> PIECE_O,
     score |-> 144, level |-> 1, lines_cleared |-> 0,
     gravity_timer |-> DoubleZero, lock_delay_timer |-> DoubleZero, is_on_ground |-> FALSE]

InitScenario ==
    /\ Holds(FifthSquareAimed)
    /\ NoCallYet

SpecScenario == InitScenario /\ [][Next]_vars

(***************************************************************************)
(* A blocked spawn position: SpecSpawn takes up games whose next lock      *)
(* fills the four cells under the spawn position, and the games that have  *)
(* ended so.                                                               *)
(***************************************************************************)
\* columns 4 and 5 filled from top to bottom by ten O pieces
SquareTowerBoard ==
    [y \in Rows |-> [x \in Cols |->
        IF x \in {4, 5} THEN piece_get_color(PIECE_O) ELSE 0]]

\* set_starting_level(1), hard_drop x10 with every draw the O piece but the
\* last two, which are cur and nxt: the piece spawned last collides
BlockedPosition(cur, nxt) ==
    [board |-> SquareTowerBoard, state |-> "GameOver",
     current_piece |-> cur, current_rotation |-> ROT_0,
     piece_x |-> SPAWN_X, piece_y |-> SPAWN_Y, next_piece |-> nxt,
     score |-> 180, level |-> 1, lines_cleared |-> 0,
     gravity_timer |-> DoubleZero, lock_delay_timer |-> DoubleZero, is_on_ground |-> FALSE]

\* the tower of nine O pieces: columns 4 and 5 filled from row 2 down
NineSquaresBoard ==
    [y \in Rows |-> [x \in Cols |->
        IF x \in {4, 5} /\ y >= 2 THEN piece_get_color(PIECE_O) ELSE 0]]

\* columns 4 and 5 filled from row 4 down by eight O pieces, and an upright
\* T piece standing on them in column 5
LedgeBoard ==
    [y \in Rows |-> [x \in Cols |->
        IF x \in {4, 5} /\ y >= 4 THEN piece_get_color(PIECE_O)
        ELSE IF <<x, y>> \in {<<5, 1>>, <<5, 2>>, <<6, 2>>, <<5, 3>>}
             THEN piece_get_color(PIECE_T)
             ELSE 0]]

\* games in play in which the piece at the spawn position rests on the
\* stack and, once locked, fills the cells (4,0), (5,0), (4,1) and (5,1)
LastPiecePositions ==
    { \* set_starting_level(1), hard_drop x9; the pieces drawn are O x10, nxt
      [board |-> NineSquaresBoard, state |-> "Playing",
       current_piece |-> PIECE_O, current_rotation |-> ROT_0,
       piece_x |-> SPAWN_X, piece_y |-> SPAWN_Y, next_piece |-> nxt,
       score |-> 180, level |-> 1, lines_cleared |-> 0,
       gravity_timer |-> DoubleZero, lock_delay_timer |-> DoubleZero,
       is_on_ground |-> FALSE] : nxt \in PieceTypes }
    \cup
    { \* set_starting_level(1), hard_drop x8, rotate, move_right, hard_drop;
      \* the pieces drawn are O x8, T, S, nxt
      [board |-> LedgeBoard, state |-> "Playing",
       current_piece |-> PIECE_S, current_rotation |-> ROT_0,
       piece_x |-> SPAWN_X, piece_y |-> SPAWN_Y, next_piece |-> nxt,
       score |-> 178, level |-> 1, lines_cleared |-> 0,
       gravity_timer |-> DoubleZero, lock_delay_timer |-> DoubleZero,
       is_on_ground |-> FALSE] : nxt \in PieceTypes }

InitSpawn ==
    /\ \/ \E cur \in PieceTypes, nxt \in PieceTypes :
              Holds(BlockedPosition(cur, nxt))
       \/ \E g \in LastPiecePositions : Holds(g)
    /\ NoCallYet

SpecSpawn == InitSpawn /\ [][Next]_vars

(***************************************************************************)
(* The piece catalog on its own: SpecPiece applies piece_get_shape and     *)
(* piece_rotate_cw to every piece type in every rotation state.            *)
(***************************************************************************)
\* calls of the catalog functions explored from each initial state
MaxTurns == 4

InitPiece ==
    /\ \E type \in PieceTypes, rotation \in Rotations :
           Holds(Probe(board_init, type, rotation, SPAWN_X, SPAWN_Y))
    /\ NoCallYet

\* one call of a catalog function on the piece held in the aggregate
PieceCalled(name, a, result) ==
    /\ calls < MaxTurns
    /\ op' = name
    /\ arg' = a
    /\ ret' = result
    /\ calls' = calls + 1
    /\ UNCHANGED <<board, state, current_piece, piece_x, piece_y, next_piece,
                   score, level, lines_cleared, gravity_timer,
                   lock_delay_timer, is_on_ground, locked, lines,
                   selected_level, should_quit, beeps, waited>>

GetShape ==
    /\ PieceCalled("get_shape", current_rotation,
                   piece_get_shape(current_piece, current_rotation))
    /\ UNCHANGED current_rotation

\* the rotation state is replaced by what piece_rotate_cw returns for it
RotateCw ==
    /\ PieceCalled("rotate_cw", current_rotation,
                   piece_rotate_cw(current_rotation))
    /\ current_rotation' = piece_rotate_cw(current_rotation)

NextPiece ==
    \/ GetShape
    \/ RotateCw

SpecPiece == InitPiece /\ [][NextPiece]_vars

(***************************************************************************)
(* Starting a game: SpecStart applies game_init and                        *)
(* game_set_starting_level to fresh games of every pair of piece types, to *)
(* the games in progress and to a game that is over.                       *)
(***************************************************************************)
\* values of rand(): each remainder modulo PIECE_COUNT occurs twice
RandValues == 0 .. (2 * PIECE_COUNT - 1)

\* column 6 filled from top to bottom
FullTowerBoard == [y \in Rows |-> [x \in Cols |-> IF x = 6 THEN 1 ELSE 0]]

\* set_starting_level(1), post(6) x4, rotate, move_right, hard_drop: the
\* I piece that was spawned collides with the tower and the game is over
OverPosition ==
    [InPlay(FullTowerBoard, 3, 0, PIECE_I, 80, 1, 0)
        EXCEPT !.state = "GameOver", !.current_rotation = ROT_0]

StartGames ==
    { game_init(r1 % PIECE_COUNT, r2 % PIECE_COUNT) :
        r1 \in RandValues, r2 \in RandValues }

InitStart ==
    /\ \E g \in StartGames \cup Positions \cup {OverPosition} : Holds(g)
    /\ NoCallYet

\* game_init; r1 and r2 are the two values of rand()
StartGame ==
    \E r1 \in RandValues, r2 \in RandValues :
        /\ Becomes(game_init(r1 % PIECE_COUNT, r2 % PIECE_COUNT))
        /\ Called("game_init", FALSE, FALSE, 0)

NextStart ==
    \/ StartGame
    \/ SetStartingLevel

SpecStart == InitStart /\ [][NextStart]_vars

(***************************************************************************)
(* game_update on its own: SpecGravity applies it, with frame-sized and    *)
(* large values of delta_time, to games at levels 1, 10, 108 and 109.      *)
(* cycle and row(k), post(c) are as above.                                 *)
(***************************************************************************)
\* 0.045: 0x1.70a3d70a3d70ap-5
ShortFrame == <<11796, 2013265, 3858752>>
\* delta_time: below the shortest gravity interval, a quarter of a second,
\* and longer than every interval
FrameDeltas == {ShortFrame, QuarterSecond, OneSecond}

GravityPositions ==
    { \* set_starting_level(1), rotate, move_down x11
      InPlay(board_init, 3, 11, PIECE_I, 11, 1, 0),
      \* set_starting_level(1), rotate, move_down x16
      InPlay(board_init, 3, 16, PIECE_I, 16, 1, 0),
      \* set_starting_level(1), cycle x24, row(3), post(8), aim
      InPlay(StackBoard(3), 7, 0, PIECE_I, 108108, 10, 96),
      \* set_starting_level(1), cycle x268, rotate, move_down x11
      InPlay(board_init, 3, 11, PIECE_I, 11665515, 108, 1072),
      \* set_starting_level(1), cycle x270, rotate, move_down x11
      InPlay(board_init, 3, 11, PIECE_I, 11838971, 109, 1080) }

InitGravity ==
    /\ \E g \in GravityPositions : Holds(g)
    /\ NoCallYet

UpdateFrame ==
    \E delta_time \in FrameDeltas, drawn \in DrawTypes :
        \E stray \in StrayReads(UpdateLines(Game, delta_time)) :
            /\ Becomes(game_update(Game, delta_time, drawn, stray))
            /\ CalledWith("update", delta_time, FALSE,
                          UpdateLocks(Game, delta_time),
                          UpdateLines(Game, delta_time))

NextGravity == UpdateFrame

SpecGravity == InitGravity /\ [][NextGravity]_vars

(***************************************************************************)
(* The driver: SpecDriver runs iterations of main's loop, each one the     *)
(* input phase (handle_input on the action input_poll returned) followed   *)
(* by the update phase (game_update on the delta timer_get_delta returned, *)
(* at most MAX_DELTA_TIME).  It starts where main starts, after game_init, *)
(* and in two games the loop has brought close to a cleared row with       *)
(* frames of 0.1 s.                                                        *)
(***************************************************************************)
MaxFrames == 3

InputActions ==
    {"INPUT_NONE", "INPUT_LEFT", "INPUT_RIGHT", "INPUT_DOWN", "INPUT_ROTATE",
     "INPUT_HARD_DROP", "INPUT_PAUSE", "INPUT_QUIT", "INPUT_START"}

\* #define MAX_DELTA_TIME 0.1: 0x1.999999999999ap-4
MAX_DELTA_TIME == <<26214, 1677721, 2516608>>
\* 0.016: 0x1.0624dd2f1a9fcp-6
FrameTime == <<4194, 1275068, 1744832>>
\* what timer_get_delta returns: a frame of the 60 FPS loop, and
\* MAX_DELTA_TIME after a slow frame
LoopDeltas == {FrameTime, MAX_DELTA_TIME}

\* a timer after k updates of MAX_DELTA_TIME, from 0.0
RECURSIVE SlowFrames(_)
SlowFrames(k) ==
    IF k = 0 THEN DoubleZero ELSE DoubleSum(SlowFrames(k - 1), MAX_DELTA_TIME)

game_is_paused(g) == g.state = "Paused"

\* the level selection after an action on the start screen
SelectLevel(action, sel) ==
    CASE action = "INPUT_LEFT" ->
            IF sel - 1 < 1 THEN 10 ELSE sel - 1
      [] action = "INPUT_RIGHT" ->
            IF sel + 1 > 10 THEN 1 ELSE sel + 1
      [] action = "INPUT_DOWN" ->
            IF sel + 5 > 10
            THEN (IF (sel + 5) % 10 = 0 THEN 10 ELSE (sel + 5) % 10)
            ELSE sel + 5
      [] action = "INPUT_ROTATE" ->
            IF sel - 5 < 1 THEN sel - 5 + 10 ELSE sel - 5
      [] OTHER -> sel

\* handle_input forwarding the start action in every state
InputGameStartAnywhere(g, action, sel, drawn, stray) ==
    IF action = "INPUT_START"
    THEN game_set_starting_level(g, sel)
    ELSE IF g.state = "StartScreen"
    THEN g
    ELSE CASE action = "INPUT_LEFT" -> game_move_left(g)
           [] action = "INPUT_RIGHT" -> game_move_right(g)
           [] action = "INPUT_DOWN" -> game_move_down(g)
           [] action = "INPUT_ROTATE" -> game_rotate(g)
           [] action = "INPUT_HARD_DROP" -> game_hard_drop(g, drawn, stray)
           [] action = "INPUT_PAUSE" -> game_toggle_pause(g)
           [] OTHER -> g

\* the game after handle_input
InputGame(g, action, sel, drawn, stray) ==
    IF g.state = "StartScreen"
    THEN IF action = "INPUT_START"
         THEN game_set_starting_level(g, sel)
         ELSE g
    ELSE CASE action = "INPUT_LEFT" -> game_move_left(g)
           [] action = "INPUT_RIGHT" -> game_move_right(g)
           [] action = "INPUT_DOWN" -> game_move_down(g)
           [] action = "INPUT_ROTATE" -> game_rotate(g)
           [] action = "INPUT_HARD_DROP" -> game_hard_drop(g, drawn, stray)
           [] action = "INPUT_PAUSE" -> game_toggle_pause(g)
           [] OTHER -> g

handle_input(g, action, quit, sel, drawn, stray) ==
    [game |-> InputGame(g, action, sel, drawn, stray),
     should_quit |-> (quit \/ action = "INPUT_QUIT"),
     selected_level |->
         IF g.state = "StartScreen" THEN SelectLevel(action, sel) ELSE sel]

\* the row count handle_input's lock_and_clear obtains, 0 if it runs none
InputLines(g, action) ==
    IF g.state # "StartScreen" /\ action = "INPUT_HARD_DROP"
    THEN HardDropLines(g)
    ELSE 0

InputLocks(g, action) ==
    g.state = "Playing" /\ action = "INPUT_HARD_DROP"

\* the guard of the update phase without the test for the start screen
UpdateRunsUnlessPaused(g) == ~game_is_paused(g)

\* the update phase runs game_update
UpdateRuns(g) == ~game_is_paused(g) /\ g.state # "StartScreen"

\* a game in progress as the loop left it
InLoop(b, type, x, y, nxt, sc, grav, lock, ground) ==
    [board |-> b, state |-> "Playing",
     current_piece |-> type, current_rotation |-> 0,
     piece_x |-> x, piece_y |-> y, next_piece |-> nxt,
     score |-> sc, level |-> 1, lines_cleared |-> 0,
     gravity_timer |-> grav, lock_delay_timer |-> lock,
     is_on_ground |-> ground]

\* the bottom row filled in the columns 0..7 by two I pieces
TwoBarsBoard ==
    [y \in Rows |->
        [x \in Cols |-> IF y = BOARD_HEIGHT - 1 /\ x <= 7 THEN 1 ELSE 0]]

LoopPositions ==
    { \* frames of 0.1 s: START, LEFT x3, HARD_DROP, RIGHT, HARD_DROP,
      \* RIGHT x4; the pieces drawn are I, I, O, I
      InLoop(TwoBarsBoard, PIECE_O, 7, 1, PIECE_I, 72,
             SlowFrames(2), DoubleZero, FALSE),
      \* the same, then DOWN x20
      InLoop(TwoBarsBoard, PIECE_O, 7, 18, PIECE_I, 88,
             SlowFrames(3), SlowFrames(4), TRUE) }

InitDriver ==
    /\ \E g \in FreshGames \cup LoopPositions : Holds(g)
    /\ NoCallYet

\* one iteration of the loop; rendering and the wait change nothing here,
\* and no statement of the loop calls sound_beep
Frame ==
    /\ ~should_quit
    /\ calls < MaxFrames
    /\ \E action \in InputActions, delta \in LoopDeltas,
          drawn \in DrawTypes, again \in DrawTypes :
         \E stray \in StrayReads(InputLines(Game, action)) :
           LET h == handle_input(Game, action, should_quit, selected_level,
                                 drawn, stray)
               runs == UpdateRuns(h.game)
               n == IF runs THEN UpdateLines(h.game, delta) ELSE 0
           IN  \E other \in StrayReads(n) :
                 /\ Becomes(IF runs
                            THEN game_update(h.game, delta, again, other)
                            ELSE h.game)
                 /\ selected_level' = h.selected_level
                 /\ should_quit' = h.should_quit
                 /\ beeps' = 0
                 /\ op' = "frame"
                 /\ arg' = delta
                 /\ ret' = FALSE
                 /\ locked' = (InputLocks(Game, action)
                               \/ (runs /\ UpdateLocks(h.game, delta)))
                 /\ lines' = InputLines(Game, action) + n
                 /\ waited' =
                        LET w == IF InputLocks(Game, action) THEN 0 ELSE waited
                        IN  IF runs
                            THEN WaitedAfter(w, "update", h.game, delta,
                                             UpdateLocks(h.game, delta))
                            ELSE w
                 /\ calls' = calls + 1

NextDriver == Frame

SpecDriver == InitDriver /\ [][NextDriver]_vars

(***************************************************************************)
(* The loop phase by phase: SpecLoop runs main's loop as the input phase   *)
(* (handle_input) and the update phase in turn, so that the game is seen   *)
(* after each of them.  Besides the games of SpecDriver it starts in games *)
(* the loop has brought to a tower of O pieces under the spawn position.   *)
(***************************************************************************)
MaxPhases == 6

TowerPositions ==
    { \* frames of 0.1 s: START, HARD_DROP x9; every piece drawn is O
      InLoop(NineSquaresBoard, PIECE_O, 3, 0, PIECE_O, 178,
             SlowFrames(1), SlowFrames(1), TRUE),
      \* the same, then NONE x3
      InLoop(NineSquaresBoard, PIECE_O, 3, 0, PIECE_O, 178,
             SlowFrames(4), SlowFrames(4), TRUE) }

InitLoop ==
    /\ \E g \in FreshGames \cup LoopPositions \cup TowerPositions : Holds(g)
    /\ NoCallYet

\* the input phase of an iteration
InputPhase ==
    /\ ~should_quit
    /\ calls < MaxPhases
    /\ op # "handle_input"
    /\ \E action \in InputActions, drawn \in DrawTypes :
         \E stray \in StrayReads(InputLines(Game, action)) :
           LET h == handle_input(Game, action, should_quit, selected_level,
                                 drawn, stray)
           IN  /\ Becomes(h.game)
               /\ selected_level' = h.selected_level
               /\ should_quit' = h.should_quit
               /\ beeps' = 0
               /\ op' = "handle_input"
               /\ arg' = action
               /\ ret' = FALSE
               /\ locked' = InputLocks(Game, action)
               /\ lines' = InputLines(Game, action)
               /\ calls' = calls + 1
               /\ waited' = IF InputLocks(Game, action) THEN 0 ELSE waited

\* the update phase of an iteration, with the delta the iteration began with
UpdatePhase ==
    /\ calls < MaxPhases
    /\ op = "handle_input"
    /\ \E delta \in LoopDeltas, drawn \in DrawTypes :
         LET runs == UpdateRuns(Game)
             n == IF runs THEN UpdateLines(Game, delta) ELSE 0
         IN  \E stray \in StrayReads(n) :
               /\ Becomes(IF runs
                          THEN game_update(Game, delta, drawn, stray)
                          ELSE Game)
               /\ op' = "update_phase"
               /\ arg' = delta
               /\ ret' = runs
               /\ locked' = (runs /\ UpdateLocks(Game, delta))
               /\ lines' = n
               /\ calls' = calls + 1
               /\ waited' = IF runs
                             THEN WaitedAfter(waited, "update", Game, delta,
                                              UpdateLocks(Game, delta))
                             ELSE waited
               /\ UNCHANGED <<selected_level, should_quit, beeps>>

NextLoop ==
    \/ InputPhase
    \/ UpdatePhase

SpecLoop == InitLoop /\ [][NextLoop]_vars

(***************************************************************************)
(* A rotation kicked above the board: SpecKick applies the calls of the    *)
(* interface to a game in which a flat I piece has spawned right above a   *)
(* flat I piece that lies across a tower, so that its rotation collides    *)
(* in place, one column to the left and one to the right.                  *)
(***************************************************************************)
\* column 6 filled in the rows 4..19, and a flat I piece across its top
BarOnTowerBoard ==
    [y \in Rows |-> [x \in Cols |->
        IF (x = 6 /\ y >= 4) \/ (y = 3 /\ x \in 3 .. 6)
        THEN piece_get_color(PIECE_I) ELSE 0]]

\* set_starting_level(1), post(6) x4, hard_drop; every piece drawn is I
KickPosition ==
    InLoop(BarOnTowerBoard, PIECE_I, SPAWN_X, SPAWN_Y, PIECE_I, 84,
           DoubleZero, DoubleZero, FALSE)

InitKick ==
    /\ Holds(KickPosition)
    /\ NoCallYet

SpecKick == InitKick /\ [][Next]_vars

(***************************************************************************)
(* The lock delay under the driver's cap: SpecDelay applies update with    *)
(* delta_time of at most MAX_DELTA_TIME, the soft drop, the side moves and *)
(* the hard drop to pieces that have just spawned, one of them on top of a *)
(* tower, where it is grounded at once.                                    *)
(***************************************************************************)
MaxWaits == 7

\* delta_time as timer_get_delta caps it
CappedDeltas == {DoubleZero, FrameTime, MAX_DELTA_TIME}

SpawnedPositions ==
    { \* START, HARD_DROP x9 with no update in between; every piece drawn
      \* is O
      InLoop(NineSquaresBoard, PIECE_O, SPAWN_X, SPAWN_Y, PIECE_O, 178,
             DoubleZero, DoubleZero, FALSE),
      KickPosition }

InitDelay ==
    /\ \E g \in SpawnedPositions : Holds(g)
    /\ NoCallYet

DelayUpdate ==
    \E delta_time \in CappedDeltas, drawn \in DrawTypes :
        \E stray \in StrayReads(UpdateLines(Game, delta_time)) :
            /\ Becomes(game_update(Game, delta_time, drawn, stray))
            /\ CalledWithin(MaxWaits, "update", delta_time, FALSE,
                            UpdateLocks(Game, delta_time),
                            UpdateLines(Game, delta_time))

DelayMoveLeft ==
    /\ Becomes(game_move_left(Game))
    /\ CalledWithin(MaxWaits, "move_left", 0, MoveSideOk(Game, -1), FALSE, 0)

DelayMoveDown ==
    /\ Becomes(game_move_down(Game))
    /\ CalledWithin(MaxWaits, "move_down", 0, MoveDownOk(Game), FALSE, 0)

DelayHardDrop ==
    \E drawn \in DrawTypes :
        \E stray \in StrayReads(HardDropLines(Game)) :
            /\ Becomes(game_hard_drop(Game, drawn, stray))
            /\ CalledWithin(MaxWaits, "hard_drop", 0, FALSE,
                            state = "Playing", HardDropLines(Game))

NextDelay ==
    \/ DelayUpdate
    \/ DelayMoveLeft
    \/ DelayMoveDown
    \/ DelayHardDrop

SpecDelay == InitDelay /\ [][NextDelay]_vars

(***************************************************************************)
(* No input: SpecLive is a caller of game_update that calls it again and   *)
(* again, and nothing else, on games with a tower under the spawn          *)
(* position.  delta_time is a quarter of a second, a second, or 2^-60 s;   *)
(* the calls are counted up to MaxUpdates, more than any of these games    *)
(* lasts when every delta_time is a quarter of a second or more.           *)
(***************************************************************************)
MaxUpdates == 40

\* 2^-60 s
TinyTime == <<0, 0, 4>>

LiveDeltas == Deltas \cup {TinyTime}

LivePositions == TowerPositions \cup {KickPosition}

InitLive ==
    /\ \E g \in LivePositions : Holds(g)
    /\ NoCallYet

LiveUpdate ==
    \E delta_time \in LiveDeltas, drawn \in DrawTypes :
        \E stray \in StrayReads(UpdateLines(Game, delta_time)) :
            /\ Becomes(game_update(Game, delta_time, drawn, stray))
            /\ CalledWithin(MaxUpdates, "update", delta_time, FALSE,
                            UpdateLocks(Game, delta_time),
                            UpdateLines(Game, delta_time))

NextLive == LiveUpdate

\* one more call of update: a step of NextLive is enabled exactly while
\* calls < MaxUpdates, and it is the only step that changes calls
UpdateCalled == calls < MaxUpdates /\ calls' = calls + 1

\* update is called forever
SpecLive == InitLive /\ [][NextLive]_vars /\ WF_calls(UpdateCalled)

\* C29: in every frame of the driver loop in which lock_and_clear cleared
\* at least one row sound_beep is invoked, and it is invoked in no other
\* frame.
BeepOnEveryClear ==
    [][op' = "frame" => (beeps' > 0 <=> lines' > 0)]_vars

PlacedCells ==
    LET shape == ROTATION_TABLES[current_piece + 1][current_rotation + 1]
    IN  { <<piece_x + shape[i][1], piece_y + shape[i][2]>> : i \in 1 .. 4 }

\* C6: board_check_collision is true iff some cell of the piece has a column
\* outside 0..9, or a row of 20 or more, or a row in 0..19 on a non-empty
\* cell; so a placement inside the board on empty cells never collides and
\* one with a cell in column -1, column 10 or row 20 always does.
CollisionCharacterised ==
    op = "check_collision" =>
        /\ ret <=> \E c \in PlacedCells :
                      \/ c[1] < 0
                      \/ c[1] >= 10
                      \/ c[2] >= 20
                      \/ /\ c[2] \in 0 .. 19
                         /\ c[1] \in 0 .. 9
                         /\ board[c[2]][c[1]] # 0
        /\ (\A c \in PlacedCells :
               c[1] \in 0 .. 9 /\ c[2] \in 0 .. 19 /\ board[c[2]][c[1]] = 0)
             => ~ret
        /\ (\E c \in PlacedCells : c[1] = -1 \/ c[1] = 10 \/ c[2] = 20)
             => ret

\* C6 witness: a placement with a cell above row 0 and a cell on the board
\* was found free of collision.
FreeAboveTheBoard ==
    /\ op = "check_collision"
    /\ ~ret
    /\ \E c \in PlacedCells : c[2] < 0
    /\ \E c \in PlacedCells : c[2] >= 0

\* the full rows of board b
FullRows(b) == {y \in Rows : \A x \in Cols : b[y][x] # 0}

\* C7: board_clear_lines on a board with k full rows returns k and leaves
\* the top k rows empty and every non-full row moved down by the number of
\* full rows that were below it.
ClearCompacts ==
    [][op' = "clear_lines" =>
        LET F == FullRows(board)
            k == Cardinality(F)
        IN  /\ ret' = k
            /\ \A y \in Rows :
                  /\ y < k => board'[y] = EmptyRow
                  /\ y \notin F =>
                        board'[y + Cardinality({f \in F : f > y})] = board[y]]_vars

\* C7 witness: 2 rows were cleared, the row that was row 4 moved down by 2
\* and the row that was row 9 moved down by 1.
TwoRowsCompacted ==
    /\ op = "clear_lines"
    /\ ret = 2
    /\ board[6] = TestRow(4, FALSE, TRUE)
    /\ board[10] = TestRow(9, FALSE, TRUE)

\* C8: right after a call of board_clear_lines no row is full, and a second
\* call returns 0 and leaves the board unchanged.
ClearIdempotent ==
    /\ [](op = "clear_lines" => FullRows(board) = {})
    /\ [][op = "clear_lines" /\ op' = "clear_lines" =>
            ret' = 0 /\ board' = board]_vars

\* C8 witness: board_clear_lines was called a second time on a board that
\* still holds cells.
ClearedTwice ==
    /\ op = "clear_lines"
    /\ calls = 2
    /\ ret = 0
    /\ board # board_init

\* C10: board_lock_piece sets every cell of the piece that lies on the
\* board to the colour of its type (type + 1, in 1..7, one per type), so
\* board_get_cell returns it there; cells above row 0 are written nowhere
\* and every other cell of the board is unchanged.
LockWritesCells ==
    /\ [][op' = "lock_piece" =>
            \A x \in Cols, y \in Rows :
                board_get_cell(board', x, y) =
                    IF <<x, y>> \in PlacedCells THEN current_piece + 1
                    ELSE board[y][x]]_vars
    /\ [](op = "lock_piece" =>
            /\ piece_get_color(current_piece) = current_piece + 1
            /\ piece_get_color(current_piece) \in 1 .. 7
            /\ \A t \in PieceTypes :
                  t # current_piece => piece_get_color(t) # piece_get_color(current_piece))

\* C10 witness: a piece was locked with one cell above row 0 and the others
\* on the board, over cells that were occupied before.
LockedAcrossTheTop ==
    /\ op = "lock_piece"
    /\ \E c \in PlacedCells : c[2] < 0
    /\ \E c \in PlacedCells : c[2] >= 0 /\ c[1] \in Cols
    /\ board[0][0] = 7

\* C11: every cell of the board holds a value in 0..7, and board_get_cell
\* returns 0 for a column outside 0..9 or a row outside 0..19 and the stored
\* cell otherwise.
CellsInDomain ==
    /\ \A y \in Rows, x \in Cols : board[y][x] \in 0 .. 7
    /\ op = "get_cell" =>
          ret = IF piece_x \in 0 .. 9 /\ piece_y \in 0 .. 19
                THEN board[piece_y][piece_x]
                ELSE 0

\* C11 witness: board_get_cell returned the colour 7 that board_lock_piece
\* stored for an L piece below row 0.
ReadLockedCell ==
    /\ op = "get_cell"
    /\ calls = 2
    /\ current_piece = PIECE_L
    /\ piece_y >= 1
    /\ ret = 7

\* no field of the game aggregate is changed by the step
AggregateUnchanged ==
    UNCHANGED <<board, state, current_piece, current_rotation, piece_x,
                piece_y, next_piece, score, level, lines_cleared,
                gravity_timer, lock_delay_timer, is_on_ground>>

\* C12: when the state is not Playing, move_left, move_right, move_down and
\* rotate return failure, and they, hard_drop and update change no field of
\* the game aggregate.
IdleOutsidePlaying ==
    [][state # "Playing" =>
        /\ op' \in {"move_left", "move_right", "move_down", "rotate"} =>
              ret' = FALSE /\ AggregateUnchanged
        /\ op' \in {"hard_drop", "update"} => AggregateUnchanged]_vars

\* C12 witness: move_down was refused while Paused although the row below
\* the piece is free.
RefusedWhilePaused ==
    /\ state = "Paused"
    /\ op = "move_down"
    /\ ret = FALSE
    /\ ~board_check_collision(board, current_piece, current_rotation,
                              piece_x, piece_y + 1)

\* the active piece collides when shifted by (dx, dy)
Blocked(dx, dy) ==
    \E c \in PlacedCells :
        \/ c[1] + dx \notin 0 .. 9
        \/ c[2] + dy >= 20
        \/ c[2] + dy >= 0 /\ board[c[2] + dy][c[1] + dx] # 0

\* C13: in state Playing a move_left, move_right or move_down whose target
\* position collides returns failure and changes no field of the aggregate.
BlockedMoveRefused ==
    [][state = "Playing" =>
        /\ op' = "move_left" /\ Blocked(-1, 0) => ret' = FALSE /\ AggregateUnchanged
        /\ op' = "move_right" /\ Blocked(1, 0) => ret' = FALSE /\ AggregateUnchanged
        /\ op' = "move_down" /\ Blocked(0, 1) => ret' = FALSE /\ AggregateUnchanged]_vars

\* C13 witness: a move_right into the wall was refused while the piece was
\* resting with the lock delay running.
RefusedAtTheWall ==
    /\ state = "Playing"
    /\ op = "move_right"
    /\ ret = FALSE
    /\ Blocked(1, 0)
    /\ is_on_ground
    /\ DoubleLess(DoubleZero, lock_delay_timer)

\* the unit step of a move call, <<0, 0>> for any other call
StepOf(name) ==
    CASE name = "move_left" -> <<-1, 0>>
      [] name = "move_right" -> <<1, 0>>
      [] name = "move_down" -> <<0, 1>>
      [] OTHER -> <<0, 0>>

\* C14: in state Playing a successful move_left, move_right or move_down
\* moves the piece by exactly one unit and nothing else of the placement;
\* if the piece is not grounded at the new position the on-ground flag is
\* cleared and the lock-delay timer is 0, and if it is still grounded both
\* keep the values they had before the call.
MoveCommitsOneStep ==
    [][state = "Playing" /\ ret'
         /\ op' \in {"move_left", "move_right", "move_down"} =>
        LET d == StepOf(op')
        IN  /\ piece_x' = piece_x + d[1]
            /\ piece_y' = piece_y + d[2]
            /\ UNCHANGED <<board, state, current_piece, current_rotation>>
            /\ IF Blocked(d[1], d[2] + 1)
               THEN UNCHANGED <<is_on_ground, lock_delay_timer>>
               ELSE is_on_ground' = FALSE /\ lock_delay_timer' = DoubleZero]_vars

\* C14 witness: a resting piece was moved left along the floor and the lock
\* delay kept running.
SlidOnTheFloor ==
    /\ state = "Playing"
    /\ op = "move_left"
    /\ ret
    /\ Blocked(0, 1)
    /\ is_on_ground
    /\ DoubleLess(DoubleZero, lock_delay_timer)

\* the rows the active piece can descend: every step down to that row is
\* free and the next one collides
DropRows ==
    CHOOSE d \in 0 .. (2 * BOARD_HEIGHT) :
        /\ \A k \in 1 .. d : ~Blocked(0, k)
        /\ Blocked(0, d + 1)

\* the line-clear award of the step, 0 when it cleared no row
LineAward ==
    IF locked' /\ lines' > 0 THEN BaseScore(lines') * level ELSE 0

\* C15: a successful move_down adds exactly 1 to score and a refused one
\* nothing; hard_drop adds 2 per row descended on top of the line-clear
\* award; move_left, move_right, rotate and toggle_pause never change score,
\* and update changes it by the line-clear award only.
DropScoring ==
    [][/\ op' = "move_down" => score' = score + (IF ret' THEN 1 ELSE 0)
       /\ op' = "hard_drop" /\ state = "Playing" =>
             score' = score + 2 * DropRows + LineAward
       /\ op' \in {"move_left", "move_right", "rotate", "toggle_pause"} =>
             score' = score
       /\ op' = "update" => score' = score + LineAward]_vars

\* C15 witness: an upright I piece was hard-dropped 5 rows, from row 11 to
\* the floor of the empty board, and the score went from 11 to 21.
FiveRowDrop ==
    /\ op = "hard_drop"
    /\ locked
    /\ lines = 0
    /\ score = 21
    /\ \A y \in Rows, x \in Cols : board[y][x] # 0 <=> (x = 5 /\ y >= 16)

\* the kick offsets in the order of the specification: no shift, left 1,
\* right 1, up 1, left 2, right 2
KickOrder == << <<0, 0>>, <<-1, 0>>, <<1, 0>>, <<0, -1>>, <<-2, 0>>, <<2, 0>> >>

\* the cells of the active piece in its clockwise-successor rotation
RotatedCells ==
    LET shape == ROTATION_TABLES[current_piece + 1][((current_rotation + 1) % 4) + 1]
    IN  { <<piece_x + shape[i][1], piece_y + shape[i][2]>> : i \in 1 .. 4 }

\* the rotated piece collides at kick offset i
KickBlocked(i) ==
    \E c \in RotatedCells :
        LET x == c[1] + KickOrder[i][1]
            y == c[2] + KickOrder[i][2]
        IN  \/ x \notin 0 .. 9
            \/ y >= 20
            \/ y >= 0 /\ board[y][x] # 0

\* C16: rotate in state Playing commits the first of the six kick offsets,
\* taken in the order of KickOrder, at which the clockwise-successor
\* rotation does not collide: rotation, x and y change together and the
\* call returns success; no later offset is taken when an earlier is free.
RotateTakesFirstFreeKick ==
    [][state = "Playing" /\ op' = "rotate" =>
        \A i \in 1 .. 6 :
            (~KickBlocked(i) /\ \A j \in 1 .. (i - 1) : KickBlocked(j)) =>
                /\ ret'
                /\ current_rotation' = (current_rotation + 1) % 4
                /\ piece_x' = piece_x + KickOrder[i][1]
                /\ piece_y' = piece_y + KickOrder[i][2]]_vars

\* C16 witness: an upright I piece in column 9, beside the stack, was
\* rotated and came to lie flat two columns to the left, in row 15.
KickedTwoLeft ==
    /\ op = "rotate"
    /\ ret
    /\ calls = 1
    /\ board = StackBoard(3)
    /\ current_piece = PIECE_I
    /\ current_rotation = 0
    /\ piece_x = 6
    /\ piece_y = 14

\* C17: when the rotated piece collides at all six kick offsets, rotate
\* returns failure and changes no field of the aggregate.
BlockedRotationRefused ==
    [][state = "Playing" /\ op' = "rotate" /\ (\A i \in 1 .. 6 : KickBlocked(i)) =>
        ret' = FALSE /\ AggregateUnchanged]_vars

\* C17 witness: a resting piece, the lock delay running, could not be
\* rotated at any of the six offsets.
RefusedInTheWell ==
    /\ state = "Playing"
    /\ op = "rotate"
    /\ ret = FALSE
    /\ \A i \in 1 .. 6 : KickBlocked(i)
    /\ is_on_ground
    /\ DoubleLess(DoubleZero, lock_delay_timer)

\* a piece of the given type at rotation 0 collides at the spawn
\* coordinate (3, 0) of board b
SpawnBlocked(b, type) ==
    \E i \in 1 .. 4 :
        LET cell == ROTATION_TABLES[type + 1][1][i]
        IN  b[cell[2]][3 + cell[1]] # 0

\* C18: hard_drop in state Playing takes the piece down to the lowest row
\* reached through free positions only, locks it there in the same call,
\* clears the full rows and scores, and ends with the former next piece at
\* the spawn coordinate, in state GameOver if it collides there.
HardDropContract ==
    [][state = "Playing" /\ op' = "hard_drop" =>
        LET landed == { <<c[1], c[2] + DropRows>> : c \in PlacedCells }
            b1 == [y \in Rows |-> [x \in Cols |->
                      IF <<x, y>> \in landed THEN current_piece + 1
                      ELSE board[y][x]]]
            F == FullRows(b1)
            k == Cardinality(F)
        IN  /\ ~Blocked(0, 0)
            /\ locked'
            /\ lines' = k
            /\ \A y \in Rows :
                  /\ y < k => board'[y] = EmptyRow
                  /\ y \notin F =>
                        board'[y + Cardinality({f \in F : f > y})] = b1[y]
            /\ lines_cleared' = lines_cleared + k
            /\ score' = score + 2 * DropRows
                               + (IF k > 0 THEN BaseScore(k) * level ELSE 0)
            /\ current_piece' = next_piece
            /\ current_rotation' = 0
            /\ piece_x' = 3
            /\ piece_y' = 0
            /\ is_on_ground' = FALSE
            /\ lock_delay_timer' = DoubleZero
            /\ state' = IF SpawnBlocked(board', next_piece) THEN "GameOver"
                        ELSE "Playing"]_vars

\* C18 witness: a hard drop of 16 rows at level 3 completed the bottom row,
\* which was cleared, and the next piece is in play at the spawn coordinate.
DroppedAndCleared ==
    /\ op = "hard_drop"
    /\ locked
    /\ lines = 1
    /\ calls = 1
    /\ score = 104 + 32 + 300
    /\ state = "Playing"
    /\ piece_x = 3
    /\ piece_y = 0

\* no field of the game aggregate other than state is changed by the step
OnlyStateMayChange ==
    UNCHANGED <<board, current_piece, current_rotation, piece_x, piece_y,
                next_piece, score, level, lines_cleared, gravity_timer,
                lock_delay_timer, is_on_ground>>

\* C19: while the state is Paused an update call, whatever its delta,
\* changes no field of the aggregate; toggle_pause takes Playing to Paused
\* and Paused back to Playing with both timers and every other field as
\* they were, so pausing and resuming is the identity on the aggregate.
PauseFreezesTheGame ==
    [][/\ state = "Paused" /\ op' = "update" => AggregateUnchanged
       /\ state = "Paused" /\ op' = "toggle_pause" =>
             state' = "Playing" /\ OnlyStateMayChange
       /\ state = "Playing" /\ op' = "toggle_pause" =>
             state' = "Paused" /\ OnlyStateMayChange]_vars

\* C19 witness: update was called on a game paused while its piece was
\* resting with both timers running, and the game is still paused.
UpdatedWhilePaused ==
    /\ state = "Paused"
    /\ op = "update"
    /\ DoubleLess(DoubleZero, gravity_timer)
    /\ DoubleLess(DoubleZero, lock_delay_timer)
    /\ is_on_ground

\* C20: toggle_pause takes Playing to Paused and Paused to Playing, changes
\* nothing at all in StartScreen and GameOver, and never changes a field
\* other than state.
ToggleOnlyInPlay ==
    [][op' = "toggle_pause" =>
        /\ OnlyStateMayChange
        /\ state' = CASE state = "Playing" -> "Paused"
                      [] state = "Paused" -> "Playing"
                      [] OTHER -> state]_vars

\* C20 witness: toggle_pause was called on a game that is over.
ToggledWhenOver ==
    /\ op = "toggle_pause"
    /\ state = "GameOver"

\* the board with the active piece, moved down by dy rows, written into it
BoardWithPiece(dy) ==
    LET landed == { <<c[1], c[2] + dy>> : c \in PlacedCells }
    IN  [y \in Rows |-> [x \in Cols |->
            IF <<x, y>> \in landed THEN current_piece + 1 ELSE board[y][x]]]

\* b2 is b1 with its full rows removed, the rows above them moved down
\* and as many empty rows added on top
IsCompactionOf(b2, b1) ==
    LET F == FullRows(b1)
    IN  \A y \in Rows :
            /\ y < Cardinality(F) => b2[y] = EmptyRow
            /\ y \notin F => b2[y + Cardinality({f \in F : f > y})] = b1[y]

\* max(0.05, 0.8 - (level - 1) * 0.007) seconds, the product, the
\* difference and the comparison taken on doubles
GravityInterval ==
    LET drop == DoubleTimes(level - 1, SpeedStep)
        full == DoubleDifference(BaseSpeed, drop)
    IN  IF DoubleLess(BaseSpeed, drop) \/ DoubleLess(full, MinSpeed)
        THEN MinSpeed
        ELSE full

\* C21: in state Playing update adds delta_time to the gravity timer; iff
\* the timer is then at least max(0.05, 0.8 - (level - 1) * 0.007) seconds
\* it is set to 0 and one step down is attempted; so in one call the piece
\* descends by at most one row whatever delta_time is (the piece that is
\* locked in the call is locked at most one row below), and the step adds
\* nothing to score.  The sum and the interval are doubles.
GravityStep ==
    [][state = "Playing" /\ op' = "update" =>
        LET t == DoubleSum(gravity_timer, arg')
            fires == DoubleAtLeast(t, GravityInterval)
            step == IF fires /\ ~Blocked(0, 1) THEN 1 ELSE 0
        IN  /\ gravity_timer' = IF fires THEN DoubleZero ELSE t
            /\ score' = score + LineAward
            /\ ~locked' =>
                  /\ piece_y' = piece_y + step
                  /\ UNCHANGED <<board, piece_x, current_piece, current_rotation>>
            /\ locked' => IsCompactionOf(board', BoardWithPiece(step))]_vars

\* C21 witness: at level 109, where the interval is the minimum of 0.05 s,
\* the second update of 0.045 s moved the piece down from row 11 to row 12.
ClampedGravityStep ==
    /\ op = "update"
    /\ arg = ShortFrame
    /\ calls = 2
    /\ level = 109
    /\ piece_y = 12
    /\ gravity_timer = DoubleZero

\* C22: after the gravity phase of an update in state Playing, if the piece
\* is grounded (the on-ground flag is set or the placement one row down
\* collides) the flag is set and delta_time is added to the lock-delay
\* timer, and the piece is locked in that same call iff the timer has then
\* reached 0.5 s; if the piece is not grounded the timer is set to 0 and
\* nothing is locked.
LockDelayStep ==
    [][state = "Playing" /\ op' = "update" =>
        LET fires == DoubleAtLeast(DoubleSum(gravity_timer, arg'),
                                   GravityInterval)
            step == IF fires /\ ~Blocked(0, 1) THEN 1 ELSE 0
            flag == IF fires THEN step = 0 ELSE is_on_ground
            timer == DoubleSum(IF step = 1 THEN DoubleZero
                               ELSE lock_delay_timer, arg')
        IN  IF flag \/ Blocked(0, step + 1)
            THEN IF DoubleAtLeast(timer, LOCK_DELAY)
                 THEN /\ locked'
                      /\ IsCompactionOf(board', BoardWithPiece(step))
                      /\ current_piece' = next_piece
                      /\ piece_y' = 0
                 ELSE /\ ~locked'
                      /\ board' = board
                      /\ piece_y' = piece_y + step
                      /\ is_on_ground' = TRUE
                      /\ lock_delay_timer' = timer
            ELSE /\ ~locked'
                 /\ board' = board
                 /\ piece_y' = piece_y + step
                 /\ lock_delay_timer' = DoubleZero]_vars

\* C22 witness: a piece resting on the floor was locked by the second
\* update of 0.25 s, when its lock-delay timer reached 0.5 s.
LockedAtHalfASecond ==
    /\ op = "update"
    /\ arg = QuarterSecond
    /\ locked
    /\ calls = 2
    /\ gravity_timer = LOCK_DELAY
    /\ board[19][5] # 0

\* C23: set_starting_level sets level to its argument clamped into 1..10
\* and the state to GameOver iff the current piece collides at the spawn
\* position, to Playing otherwise; right after game_init, for every piece
\* type, the state it leaves is Playing.
StartingLevelContract ==
    [][op' = "set_starting_level" =>
        /\ level' = IF arg' < 1 THEN 1 ELSE IF arg' > 10 THEN 10 ELSE arg'
        /\ state' = IF SpawnBlocked(board, current_piece) THEN "GameOver"
                    ELSE "Playing"
        /\ (state = "StartScreen" /\ board = board_init) => state' = "Playing"]_vars

\* C23 witness: a fresh game whose first piece is the L piece was started
\* with the argument 11 and plays at level 10.
StartedAboveTheRange ==
    /\ op = "set_starting_level"
    /\ arg = 11
    /\ level = 10
    /\ state = "Playing"
    /\ current_piece = PIECE_L
    /\ score = 0

\* C24: whatever the aggregate held before, game_init leaves state
\* StartScreen, an empty board, score 0, level 1, lines_cleared 0, both
\* timers 0, the on-ground flag false, rotation 0, position (3, 0), and
\* current and next piece types within 0..6.
InitContract ==
    [][op' = "game_init" =>
        /\ state' = "StartScreen"
        /\ \A y \in Rows, x \in Cols : board'[y][x] = 0
        /\ score' = 0
        /\ level' = 1
        /\ lines_cleared' = 0
        /\ gravity_timer' = DoubleZero
        /\ lock_delay_timer' = DoubleZero
        /\ is_on_ground' = FALSE
        /\ current_rotation' = 0
        /\ piece_x' = 3
        /\ piece_y' = 0
        /\ current_piece' \in 0 .. 6
        /\ next_piece' \in 0 .. 6]_vars

\* C24 witness: game_init was called on a game started at level 10 and
\* drew the L piece and the J piece.
InitialisedAgain ==
    /\ op = "game_init"
    /\ calls = 2
    /\ level = 1
    /\ current_piece = PIECE_L
    /\ next_piece = PIECE_J

\* C25 as stated: in the game of O pieces begun at level 1, with four O
\* pieces on the floor in columns 0..7, dropping the fifth into columns 8-9
\* clears exactly 1 row: lines_cleared is 1, the level is still 1 and the
\* score grows by 100 on top of the drop points.
FifthSquareClearsOneRow ==
    [][Holds(FifthSquareAimed) /\ op' = "hard_drop" =>
        /\ lines' = 1
        /\ lines_cleared' = 1
        /\ level' = 1
        /\ score' = score + 2 * DropRows + 100]_vars

\* C25 amended: the fifth O piece completes the two rows the O pieces
\* occupy, so the drop clears exactly 2 rows: lines_cleared is 2, the level
\* is still 1 and the score grows by 300 on top of the drop points.
FifthSquareClearsTwoRows ==
    [][Holds(FifthSquareAimed) /\ op' = "hard_drop" =>
        /\ lines' = 2
        /\ lines_cleared' = 2
        /\ level' = 1
        /\ score' = score + 2 * DropRows + 300
        /\ board' = board_init]_vars

\* C25 witness: the fifth O piece was dropped 18 rows and the board is empty.
FifthSquareDropped ==
    /\ op = "hard_drop"
    /\ calls = 1
    /\ locked
    /\ current_piece = PIECE_O
    /\ score = 144 + 36 + 300
    /\ lines_cleared = 2
    /\ board = board_init

\* the cells (4,0), (5,0), (4,1) and (5,1) of board b are filled
FootprintFilled(b) == \A x \in {4, 5}, y \in {0, 1} : b[y][x] # 0

\* C26: on a board whose cells (4,0), (5,0), (4,1) and (5,1) are filled,
\* spawn_next sets the state to GameOver and returns failure, whichever of
\* the 7 types the next piece is: a call of it on such a board returns
\* FALSE and leaves the state GameOver, and the call that lock_and_clear
\* makes of it in a game in play, on a board whose four cells the lock has
\* just filled, takes the state from Playing to GameOver.
BlockedSpawnEndsGame ==
    [][/\ op' = "spawn_next" /\ FootprintFilled(board)
          => ret' = FALSE /\ state' = "GameOver"
       /\ locked' /\ FootprintFilled(board')
          => state' = "GameOver"]_vars

\* C26 witness: in a game in play a hard drop locked the S piece where it
\* had spawned, which filled the four cells; the J piece spawned by that
\* lock was blocked and the game is over.
BlockedSpawnOfJ ==
    /\ op = "hard_drop"
    /\ calls = 1
    /\ locked
    /\ current_piece = PIECE_J
    /\ state = "GameOver"
    /\ FootprintFilled(board)
    /\ board[0][4] = piece_get_color(PIECE_S)
    /\ board[1][5] = piece_get_color(PIECE_T)

\* C27: for every piece type and rotation state the shape table entry
\* consists of exactly 4 pairwise distinct offsets <<column, row>>, each
\* with column and row in 0..3.
ShapesHaveFourCells ==
    op = "get_shape" =>
        /\ DOMAIN ret = 1 .. 4
        /\ \A i \in 1 .. 4 : ret[i][1] \in 0 .. 3 /\ ret[i][2] \in 0 .. 3
        /\ \A i \in 1 .. 4, j \in 1 .. 4 : i # j => ret[i] # ret[j]

\* C27 witness: the shape of the L piece at 270 degrees was looked up.
ShapeOfLAt270 ==
    /\ op = "get_shape"
    /\ current_piece = PIECE_L
    /\ current_rotation = 3
    /\ Cardinality({ret[i] : i \in 1 .. 4}) = 4

\* C28: piece_rotate_cw maps 0 to 1, 1 to 2, 2 to 3 and 3 to 0 (0, 90, 180,
\* 270 degrees), so four applications return the rotation state they
\* started from.
RotateCwIsCyclic ==
    [][op' = "rotate_cw" =>
        /\ ret' = CASE arg' = 0 -> 1 [] arg' = 1 -> 2 [] arg' = 2 -> 3 [] arg' = 3 -> 0
        /\ piece_rotate_cw(piece_rotate_cw(piece_rotate_cw(ret'))) = arg']_vars

\* C28 witness: the fourth application in a row, to 270 degrees, returned
\* 0 degrees, where the first had started.
FullTurn ==
    /\ op = "rotate_cw"
    /\ calls = 4
    /\ arg = 3
    /\ ret = 0
    /\ current_rotation = 0

\* C30: score and lines_cleared are never negative, and no call of an
\* action or of update in a game makes either of them smaller (game_init
\* starts another game).
CountersNeverDecrease ==
    /\ [](score >= 0 /\ lines_cleared >= 0)
    /\ [][op' # "game_init" =>
            /\ score' >= score
            /\ lines_cleared' >= lines_cleared]_vars

\* C30 witness: in a game with 8 rows cleared and 2360 points or more, a
\* call ran lock_and_clear, which cleared rows and so raised both counters.
CountersRaisedMidGame ==
    /\ op \in {"update", "hard_drop"}
    /\ locked
    /\ lines >= 1
    /\ lines_cleared = 8 + lines
    /\ score >= 2360 + LINE_CLEAR_SCORES[lines + 1]

\* C31: the board is changed only by lock_and_clear: move_left, move_right,
\* move_down, rotate, toggle_pause, set_starting_level, spawn_next and
\* every update that does not run into the expiry of the lock delay leave
\* all 200 cells as they were.
BoardChangedOnlyByLock ==
    [][(\/ op' \in {"move_left", "move_right", "move_down", "rotate",
                    "toggle_pause", "set_starting_level", "spawn_next"}
        \/ (op' = "update" /\ ~locked'))
       => \A y \in Rows : \A x \in Cols : board'[y][x] = board[y][x]]_vars

\* C31 witness: on a board with locked cells, an update left a grounded
\* piece in its lock delay, in the second call made or a later one.
BoardKeptWhileGrounded ==
    /\ op = "update"
    /\ ~locked
    /\ is_on_ground
    /\ DoubleLess(DoubleZero, lock_delay_timer)
    /\ calls >= 2
    /\ \E y \in Rows : \E x \in Cols : board[y][x] # 0

\* C32: under handle_input and the update phase the state is always one of
\* the four phases and changes only from StartScreen to Playing (start
\* action), between Playing and Paused (pause action) and from Playing to
\* GameOver (a spawn that failed inside hard_drop or update); it never
\* returns to StartScreen and never reaches GameOver from Paused or
\* StartScreen.
LoopStateChanges ==
    /\ [](state \in {"StartScreen", "Playing", "Paused", "GameOver"})
    /\ [][state' # state =>
            \/ /\ state = "StartScreen" /\ state' = "Playing"
               /\ op' = "handle_input" /\ arg' = "INPUT_START"
            \/ /\ state = "Playing" /\ state' = "Paused"
               /\ op' = "handle_input" /\ arg' = "INPUT_PAUSE"
            \/ /\ state = "Paused" /\ state' = "Playing"
               /\ op' = "handle_input" /\ arg' = "INPUT_PAUSE"
            \/ /\ state = "Playing" /\ state' = "GameOver"
               /\ \/ op' = "handle_input" /\ arg' = "INPUT_HARD_DROP"
                  \/ op' = "update_phase"
               /\ locked'
               /\ board_check_collision(board', current_piece', ROT_0,
                                        SPAWN_X, SPAWN_Y)]_vars

\* C32 witness: the game ended in an update phase, whose lock was followed
\* by a spawn that failed, in the second iteration or later.
EndedInUpdatePhase ==
    /\ state = "GameOver"
    /\ op = "update_phase"
    /\ locked
    /\ calls >= 4
    /\ board_check_collision(board, current_piece, current_rotation,
                             piece_x, piece_y)

\* C33: on the start screen the driver forwards only the start action and
\* does not call update: the input phase of any other action but quit and
\* the update phase change no field of the game aggregate (the directional
\* actions change the selected level, nothing else); off the start screen
\* the start action is not forwarded, so that game_set_starting_level
\* sets the level once in a game, the state never returning to StartScreen.
StartScreenForwardsOnlyStart ==
    /\ [][state = "StartScreen" /\ op' = "handle_input"
            /\ arg' \in {"INPUT_LEFT", "INPUT_RIGHT", "INPUT_DOWN",
                         "INPUT_ROTATE", "INPUT_HARD_DROP", "INPUT_PAUSE",
                         "INPUT_NONE"}
          => /\ AggregateUnchanged
             /\ UNCHANGED should_quit
             /\ selected_level' = SelectLevel(arg', selected_level)
             /\ arg' \in {"INPUT_HARD_DROP", "INPUT_PAUSE", "INPUT_NONE"}
                    => UNCHANGED selected_level]_vars
    /\ [][state = "StartScreen" /\ op' = "update_phase"
          => ~ret' /\ AggregateUnchanged]_vars
    /\ [][state # "StartScreen" /\ op' = "handle_input"
            /\ arg' = "INPUT_START"
          => AggregateUnchanged /\ UNCHANGED selected_level]_vars

\* C33 witness: on the start screen the down action moved the selection
\* from 1 to 6, and the update phase that followed did not call update.
SelectionMovedOnStartScreen ==
    /\ state = "StartScreen"
    /\ op = "update_phase"
    /\ ~ret
    /\ selected_level = 6
    /\ calls = 2

\* C34: in every state that is Playing or Paused the active piece does not
\* collide at its type, rotation and position: its 4 cells have columns in
\* 0..9 and rows of at most 19, and none of them in a row >= 0 lies on a
\* non-empty cell of the board.
ActivePieceIsFree ==
    state \in {"Playing", "Paused"} =>
        /\ Cardinality(PlacedCells) = 4
        /\ \A c \in PlacedCells :
              /\ c[1] \in 0 .. (BOARD_WIDTH - 1)
              /\ c[2] <= BOARD_HEIGHT - 1
              /\ c[2] >= 0 => board[c[2]][c[1]] = 0
        /\ ~board_check_collision(board, current_piece, current_rotation,
                                  piece_x, piece_y)

\* C34 witness: a rotation was kicked one row up next to locked cells and
\* left the piece in play with a cell above row 0.
KickedAboveTheBoard ==
    /\ state = "Playing"
    /\ op = "rotate"
    /\ ret
    /\ \E c \in PlacedCells : c[2] < 0
    /\ \E y \in Rows : \E x \in Cols : board[y][x] # 0

\* C35: between the calls of the game's operations (after game_init and
\* after every action or update) no row of the board is completely full.
NoFullRowBetweenCalls ==
    \A y \in Rows : \E x \in Cols : board[y][x] = 0

\* C35 witness: a lock filled three rows or more at once, all of which
\* lock_and_clear removed, and locked cells remain on the board.
ThreeRowsGone ==
    /\ locked
    /\ lines >= 3
    /\ op \in {"update", "hard_drop"}
    /\ \E y \in Rows : \E x \in Cols : board[y][x] # 0
    /\ \A y \in Rows : \E x \in Cols : board[y][x] = 0

\* C36: in every state that is Playing or Paused a set on-ground flag means
\* that the piece is grounded (one row further down it collides); and every
\* piece update or hard_drop locks is locked where it rests on the floor or
\* on occupied cells, never where it could still fall.
FlagMeansGrounded ==
    /\ [](state \in {"Playing", "Paused"} /\ is_on_ground => Blocked(0, 1))
    /\ [][locked' /\ op' = "hard_drop" =>
            /\ Blocked(0, DropRows + 1)
            /\ IsCompactionOf(board', BoardWithPiece(DropRows))]_vars
    /\ [][locked' /\ op' = "update" =>
            \E dy \in {0, 1} :
                /\ ~Blocked(0, dy)
                /\ Blocked(0, dy + 1)
                /\ IsCompactionOf(board', BoardWithPiece(dy))]_vars

\* C36 witness: an update found the piece resting on locked cells, above
\* the floor, and set the flag without locking it yet.
RestingOnLockedCells ==
    /\ state = "Playing"
    /\ op = "update"
    /\ ~locked
    /\ is_on_ground
    /\ DoubleLess(DoubleZero, lock_delay_timer)
    /\ Blocked(0, 1)
    /\ \A c \in PlacedCells : c[2] < BOARD_HEIGHT - 1

\* C37: between calls the lock-delay timer is at least 0 and below 0.5 s,
\* it is 0 whenever the on-ground flag is not set, and the gravity timer is
\* not negative (delta_time being non-negative in every update).
TimersWithinBounds ==
    /\ DoubleAtLeast(lock_delay_timer, DoubleZero)
    /\ DoubleLess(lock_delay_timer, LOCK_DELAY)
    /\ ~is_on_ground => lock_delay_timer = DoubleZero
    /\ DoubleAtLeast(gravity_timer, DoubleZero)

\* C37 witness: after an update a piece stepped sideways off the cells it
\* stood on; the flag is clear and the lock-delay timer is 0 while the
\* gravity timer goes on.
TimerClearedOffTheLedge ==
    /\ state = "Playing"
    /\ op \in {"move_left", "move_right"}
    /\ ret
    /\ ~is_on_ground
    /\ lock_delay_timer = DoubleZero
    /\ DoubleLess(DoubleZero, gravity_timer)
    /\ ~Blocked(0, 1)
    /\ Blocked(IF op = "move_left" THEN 1 ELSE -1, 1)

\* the number of non-empty cells of board b
FilledCells(b) ==
    Cardinality({c \in Cols \X Rows : b[c[2]][c[1]] # 0})

\* the number of cells the active piece has in the rows >= 0 when it is
\* moved down by dy rows
CellsOnBoard(dy) == Cardinality({c \in PlacedCells : c[2] + dy >= 0})

\* C38: every lock_and_clear that clears n rows changes the number of
\* non-empty cells of the board by exactly 4 - 10 * n: the piece locked has
\* all 4 cells in rows >= 0 and none of them on an occupied cell.
CellsConserved ==
    [][locked' => FilledCells(board') = FilledCells(board) + 4 - 10 * lines']_vars

\* C38 as amended: every lock_and_clear that clears n rows changes the
\* number of non-empty cells of the board by exactly k - 10 * n, where k is
\* the number of cells the locked piece has in rows >= 0; k is below 4 when
\* the piece was kicked one row up at the top of the board, its cells above
\* row 0 being dropped; no locked cell is written on an occupied cell.
CellsConservedOnBoard ==
    [][locked' =>
        \E dy \in 0 .. (2 * BOARD_HEIGHT) :
            /\ op' = "hard_drop" => dy = DropRows
            /\ op' = "update" => dy <= 1
            /\ ~Blocked(0, dy)
            /\ Blocked(0, dy + 1)
            /\ IsCompactionOf(board', BoardWithPiece(dy))
            /\ \A c \in PlacedCells :
                  c[2] + dy >= 0 => board[c[2] + dy][c[1]] = 0
            /\ FilledCells(board') =
                  FilledCells(board) + CellsOnBoard(dy) - 10 * lines']_vars

\* C38 witness: the I piece kicked up to row -1 was locked by hard_drop in
\* the rows 0..2 of column 5: 3 cells were added to the 20 of the board.
LockedWithACellAbove ==
    /\ op = "hard_drop"
    /\ locked
    /\ lines = 0
    /\ board[0][5] # 0
    /\ board[1][5] # 0
    /\ board[2][5] # 0
    /\ FilledCells(board) = 23

\* C39: with every delta_time at most 0.1 s, update locks a piece only in
\* the fifth or a later update since its spawn that found it grounded;
\* only hard_drop locks a piece sooner.
LockAfterFiveUpdates ==
    [][locked' \/ board' # board =>
          \/ op' = "hard_drop"
          \/ /\ op' = "update"
             /\ DoubleAtLeast(MAX_DELTA_TIME, arg')
             /\ locked'
             /\ waited + 1 >= 5]_vars

\* C39 witness: the fifth update of 0.1 s in a row locked the piece that
\* had spawned on top of the tower.
LockedByTheFifthUpdate ==
    /\ op = "update"
    /\ arg = MAX_DELTA_TIME
    /\ locked
    /\ calls = 5
    /\ waited = 0
    /\ board[0][4] # 0

\* C40: with no action from the player and update called forever with
\* delta_time bounded below by a positive constant, every active piece is
\* eventually locked and the game eventually reaches GameOver and stays
\* there.  So no call of update with a positive delta_time leaves a game in
\* state Playing as it was: the same call would leave it so for ever, its
\* piece never locked.
UpdateNeverIdles ==
    [][state = "Playing" /\ op' = "update" /\ DoubleLess(DoubleZero, arg') =>
          <<board, state, current_piece, piece_x, piece_y, gravity_timer,
            lock_delay_timer, is_on_ground>>' #
          <<board, state, current_piece, piece_x, piece_y, gravity_timer,
            lock_delay_timer, is_on_ground>>]_vars

\* the behaviours in which every delta_time is a quarter of a second or
\* more do lock every piece and end in GameOver
EndsWithCoarseDeltas ==
    \/ <>(op = "update" /\ arg = TinyTime)
    \/ /\ (state = "Playing" /\ ~locked) ~> locked
       /\ <>[](state = "GameOver")

====
